---- MODULE Spec2Model ----
(***************************************************************************)
(* Model of the Tinzenite directory model (package model): the tracked     *)
(* path set, the static-info store, the filter for inbound update          *)
(* messages, the appliers and the removal (tombstone) protocol that is     *)
(* kept as files below .tinzenite/remove.                                  *)
(*                                                                         *)
(* A path is the sequence of the segments of its subpath below the root:   *)
(* <<>> is the root itself.  The file system below the root is the         *)
(* function disk, whose domain is the set of paths that exist.             *)
(* Every operation of the code is an operator from a model record m (the   *)
(* fields of Model plus the disk it works on) to a record [m, err]; the    *)
(* actions at the end apply them to the variables.                         *)
(***************************************************************************)
EXTENDS Integers, Sequences, FiniteSets, TLC

VARIABLES TrackedPaths, StaticInfos, disk, peers, nextId, now, msgs,
          other, inbox, phase

\* the model of the own peer and its environment
local == <<TrackedPaths, StaticInfos, disk, peers, nextId, now, msgs>>

\* the second peer, the update messages on their way, the phase of an exchange
sync == <<other, inbox, phase>>

vars == <<TrackedPaths, StaticInfos, disk, peers, nextId, now, msgs, other, inbox, phase>>

(***************************************************************************)
(* Bounds of the model.                                                    *)
(***************************************************************************)
\* number of identifiers createStaticInfo may mint and keep
MaxIds == 12
\* number of writes (user writes and staged files) of the environment
MaxClock == 2
\* number of update messages applied without or after the filter
MaxMsgs == 1
\* highest counter of a version carried by a message
MaxVer == 1

(***************************************************************************)
(* Names.                                                                  *)
(***************************************************************************)
SelfID == "self"

OtherPeer == "p2"

AllPeers == {SelfID, OtherPeer}

\* shared.TINZENITEDIR, REMOVEDIR, LOCALDIR, REMOVESTOREDIR, TEMPDIR
TINZENITEDIR == ".tinzenite"

REMOVEDIR == "remove"

LOCALDIR == "local"

REMOVESTOREDIR == "rmstore"

TEMPDIR == "temp"

REMOVECHECKDIR == "check"

REMOVEDONEDIR == "done"

\* identifiers minted locally, in the order they are minted
LocalIds == <<"ia", "ib", "ic", "id", "ie", "if", "ig", "ih", "ii", "ij",
              "ik", "il", "im", "in", "io", "ip", "iq", "ir", "is", "it">>

\* identifiers the second peer mints, in the order it mints them
OtherIds == <<"ya", "yb", "yc", "yd", "ye", "yf", "yg", "yh", "yi", "yj",
              "yk", "yl", "ym", "yn", "yo", "yp", "yq", "yr", "ys", "yt">>

\* an identifier minted by another peer
RemoteId == "xa"

\* the identifier the other peer gave to the directories and markers of a removal
MarkerId == "xb"

\* the segments in the order of their strings
NameOrder == <<".tinzenite", "check", "d", "d2", "done", "f">> \o LocalIds \o
             <<"local", "p2", "remove", "rmstore", "self", "temp", "xa", "xb">> \o
             OtherIds

RankTable ==
    [n \in {NameOrder[i] : i \in 1..Len(NameOrder)} |->
        CHOOSE i \in 1..Len(NameOrder) : NameOrder[i] = n]

Rank(n) == RankTable[n]

OK == "ok"

\* content hashes of files
Hashes == {"h1", "h2"}

Root == <<>>

RemovePath == <<TINZENITEDIR, REMOVEDIR>>

RemoveStorePath == <<TINZENITEDIR, LOCALDIR, REMOVESTOREDIR>>

TempPath == <<TINZENITEDIR, TEMPDIR>>

TombDir(id) == RemovePath \o <<id>>

\* the directory of the model, as the absolute path Create was given
RootPath == "root"

DirD == <<"d">>

\* a second directory, whose name begins with the name of the first
DirD2 == <<"d2">>

FileF == <<"d", "f">>

UserFiles == {FileF}

UserPaths == {DirD, FileF}

(***************************************************************************)
(* shared.RelativePath                                                     *)
(***************************************************************************)
IsPrefix(p, q) == Len(p) <= Len(q) /\ SubSeq(q, 1, Len(p)) = p

Up(p) == SubSeq(p, 1, Len(p) - 1)

LastElement(p) == IF p = <<>> THEN "" ELSE p[Len(p)]

AtRoot(p) == p = <<>>

RECURSIVE PathLess(_, _)
PathLess(p, q) ==
    IF p = <<>> THEN q # <<>>
    ELSE IF q = <<>> THEN FALSE
    ELSE IF Head(p) = Head(q) THEN PathLess(Tail(p), Tail(q))
    ELSE Rank(Head(p)) < Rank(Head(q))

RECURSIVE SortString(_)
SortString(S) ==
    IF S = {} THEN <<>>
    ELSE LET first == CHOOSE p \in S : \A q \in S \ {p} : PathLess(p, q)
         IN <<first>> \o SortString(S \ {first})

(***************************************************************************)
(* shared.Version: a map from peer to counter, an absent peer counting 0.  *)
(***************************************************************************)
CreateVersion == [p \in AllPeers |-> 0]

VersionIsEmpty(v) == \A p \in AllPeers : v[p] = 0

VersionEqual(a, b) == a = b

VersionIncludes(a, b) == \A p \in AllPeers : a[p] >= b[p]

VersionIncrease(v, self) == [v EXCEPT ![self] = v[self] + 1]

VersionValid(a, b, self) == VersionIncludes(a, b) \/ VersionIncludes(b, a)

(***************************************************************************)
(* The file system.                                                        *)
(***************************************************************************)
DirEntry == [dir |-> TRUE, content |-> "", mtime |-> 0]

FileEntry(c, t) == [dir |-> FALSE, content |-> c, mtime |-> t]

FileExists(d, p) == p \in DOMAIN d

Put(d, p, e) == [q \in DOMAIN d \cup {p} |-> IF q = p THEN e ELSE d[q]]

RemoveAll(d, p) == [q \in {x \in DOMAIN d : ~IsPrefix(p, x)} |-> d[q]]

\* os.MkdirAll: the directory and every missing parent
MakeDirectory(d, p) ==
    [q \in DOMAIN d \cup {SubSeq(p, 1, i) : i \in 0..Len(p)} |->
        IF q \in DOMAIN d THEN d[q] ELSE DirEntry]

\* ioutil.WriteFile can write only into an existing directory
CanWrite(d, p) == p # <<>> /\ Up(p) \in DOMAIN d /\ d[Up(p)].dir

(***************************************************************************)
(* The model record and its queries.                                       *)
(***************************************************************************)
\* events is the sink: what one call has written to the update channel
M == [TrackedPaths |-> TrackedPaths, StaticInfos |-> StaticInfos, disk |-> disk,
      peers |-> peers, nextId |-> nextId, events |-> <<>>, SelfID |-> SelfID]

Ret(m, e) == [m |-> m, err |-> e]

\* the object a local operation is called with: no remote object
NilObj == [Identification |-> "<nil>", Path |-> <<>>, Version |-> CreateVersion,
           Directory |-> FALSE, Content |-> ""]

\* .tinzenite/.tinignore names the local and the temp directory
Ignore(p) ==
    Len(p) >= 2 /\ p[1] = TINZENITEDIR /\ p[2] \in {LOCALDIR, TEMPDIR}

partialPopulateMap(m, rootPath) ==
    IF ~FileExists(m.disk, rootPath) THEN {}
    ELSE {q \in DOMAIN m.disk : IsPrefix(rootPath, q) /\ ~Ignore(q)}

populateMap(m) == partialPopulateMap(m, Root)

IsTracked(m, p) == p \in m.TrackedPaths /\ p \in DOMAIN m.StaticInfos

InRemoveDir(p) == IsPrefix(RemovePath, p)

isLocalRemoved(m, id) == FileExists(m.disk, RemoveStorePath \o <<id>>)

\* isRemoved that looks at the shared removal directory only
isRemovedSharedOnly(m, id) == FileExists(m.disk, TombDir(id))

isRemoved(m, id) == FileExists(m.disk, TombDir(id)) \/ isLocalRemoved(m, id)

readPeers(m) == m.peers

RECURSIVE parentsExist(_, _)
parentsExist(m, p) ==
    IF AtRoot(p) THEN TRUE
    ELSE IsTracked(m, Up(p)) /\ parentsExist(m, Up(p))

\* isModified without the comparison of the hashes
isModifiedByTime(m, p) ==
    IF p \notin DOMAIN m.StaticInfos THEN FALSE
    ELSE IF m.StaticInfos[p].Directory THEN FALSE
    ELSE IF ~FileExists(m.disk, p) THEN FALSE
    ELSE m.disk[p].mtime # m.StaticInfos[p].Modtime

isModified(m, p) ==
    IF p \notin DOMAIN m.StaticInfos THEN FALSE
    ELSE LET stin == m.StaticInfos[p] IN
         IF stin.Directory THEN FALSE
         ELSE IF ~FileExists(m.disk, p) THEN FALSE
         ELSE IF m.disk[p].mtime = stin.Modtime THEN FALSE
         ELSE IF m.disk[p].dir THEN FALSE
         ELSE m.disk[p].content # stin.Content

GetInfo(m, p) ==
    IF ~IsTracked(m, p) \/ ~FileExists(m.disk, p) THEN NilObj
    ELSE LET stin == m.StaticInfos[p] IN
         [Identification |-> stin.Identification, Path |-> p,
          Version |-> stin.Version, Directory |-> m.disk[p].dir,
          Content |-> IF m.disk[p].dir THEN "" ELSE stin.Content]

notify(m, op, obj) ==
    IF obj = NilObj THEN m
    ELSE IF VersionIsEmpty(obj.Version) /\ op = "Modify" THEN m
    ELSE [m EXCEPT !.events = Append(@, [Operation |-> op, Object |-> obj])]

(***************************************************************************)
(* staticinfo                                                              *)
(***************************************************************************)
NewIdentifier(m) ==
    IF m.nextId >= Len(LocalIds) THEN "overflow"
    ELSE IF m.SelfID = SelfID THEN LocalIds[m.nextId + 1] ELSE OtherIds[m.nextId + 1]

createStaticInfo(m, p) ==
    [Identification |-> NewIdentifier(m),
     Version |-> CreateVersion,
     Directory |-> m.disk[p].dir,
     Content |-> IF m.disk[p].dir THEN "" ELSE m.disk[p].content,
     Modtime |-> m.disk[p].mtime]

updateFromDisk(stin, d, p) ==
    [stin EXCEPT !.Content = IF stin.Directory THEN @ ELSE d[p].content,
                 !.Modtime = d[p].mtime]

\* applyObjectInfo that keeps the version createStaticInfo has given
applyObjectInfoKeepVersion(stin, obj) ==
    [stin EXCEPT !.Identification = obj.Identification,
                 !.Directory = obj.Directory,
                 !.Content = obj.Content]

applyObjectInfo(stin, obj) ==
    [stin EXCEPT !.Identification = obj.Identification,
                 !.Version = obj.Version,
                 !.Directory = obj.Directory,
                 !.Content = obj.Content]

(***************************************************************************)
(* ApplyCreate and ApplyModify                                             *)
(***************************************************************************)
TempFile(id) == TempPath \o <<id>>

\* applyFile that answers a missing staged file as any other failed move
applyFileAnyError(m, id, p) ==
    IF ~FileExists(m.disk, TempFile(id)) THEN Ret(m, "IOError")
    ELSE IF ~CanWrite(m.disk, p) \/ (FileExists(m.disk, p) /\ m.disk[p].dir)
    THEN Ret(m, "IOError")
    ELSE Ret([m EXCEPT !.disk = Put(RemoveAll(@, TempFile(id)), p,
                                    m.disk[TempFile(id)])], OK)

applyFile(m, id, p) ==
    IF ~FileExists(m.disk, TempFile(id)) THEN Ret(m, "MissingUpdateFile")
    ELSE IF ~CanWrite(m.disk, p) \/ (FileExists(m.disk, p) /\ m.disk[p].dir)
    THEN Ret(m, "IOError")
    ELSE Ret([m EXCEPT !.disk = Put(RemoveAll(@, TempFile(id)), p,
                                    m.disk[TempFile(id)])], OK)

\* the last lines of ApplyCreate: track the object and notify
trackCreated(m, p, stin) ==
    LET m1 == [m EXCEPT !.TrackedPaths = @ \cup {p},
                        !.StaticInfos = Put(@, p, stin)]
    IN Ret(notify(m1, "Create", GetInfo(m1, p)), OK)

\* ApplyCreate that takes a remote object without looking whether the path is tracked
ApplyCreateUnguarded(m, p, remoteObject) ==
    LET localExists == FileExists(m.disk, p) IN
    IF remoteObject # NilObj
    THEN IF localExists THEN Ret(m, "Conflict")
         ELSE LET r == IF remoteObject.Directory
                       THEN Ret([m EXCEPT !.disk = MakeDirectory(@, p)], OK)
                       ELSE applyFile(m, remoteObject.Identification, p)
              IN IF r.err # OK THEN r
                 ELSE trackCreated(r.m, p,
                          applyObjectInfo(createStaticInfo(r.m, p), remoteObject))
    ELSE IF IsTracked(m, p)
    THEN Ret(m, IF localExists THEN "Conflict" ELSE "IllegalFileState")
    ELSE IF ~localExists THEN Ret(m, "IllegalFileState")
         ELSE trackCreated([m EXCEPT !.nextId = @ + 1], p, createStaticInfo(m, p))

ApplyCreate(m, p, remoteObject) ==
    LET localExists == FileExists(m.disk, p) IN
    IF IsTracked(m, p)
    THEN Ret(m, IF localExists THEN "Conflict" ELSE "IllegalFileState")
    ELSE IF remoteObject # NilObj
    THEN IF localExists THEN Ret(m, "Conflict")
         ELSE LET r == IF remoteObject.Directory
                       THEN Ret([m EXCEPT !.disk = MakeDirectory(@, p)], OK)
                       ELSE applyFile(m, remoteObject.Identification, p)
              IN IF r.err # OK THEN r
                 ELSE trackCreated(r.m, p,
                          applyObjectInfo(createStaticInfo(r.m, p), remoteObject))
    ELSE IF ~localExists THEN Ret(m, "IllegalFileState")
         ELSE trackCreated([m EXCEPT !.nextId = @ + 1], p, createStaticInfo(m, p))

\* the last lines of ApplyModify: refresh from disk, store, notify
storeModified(m, p, stin) ==
    IF ~FileExists(m.disk, p) THEN Ret(m, "IOError")
    ELSE LET m1 == [m EXCEPT !.StaticInfos =
                        Put(@, p, updateFromDisk(stin, m.disk, p))]
         IN Ret(notify(m1, "Modify", GetInfo(m1, p)), OK)

\* ApplyModify without the check of the version merge
ApplyModifyUnmerged(m, p, remoteObject) ==
    IF remoteObject # NilObj /\ VersionIsEmpty(remoteObject.Version) THEN Ret(m, OK)
    ELSE IF p \notin DOMAIN m.StaticInfos THEN Ret(m, "ModelInconsistent")
    ELSE LET stin == m.StaticInfos[p]
             localModified == isModified(m, p)
         IN IF remoteObject # NilObj
            THEN IF localModified THEN Ret(m, "Conflict")
                 ELSE LET stin1 == [stin EXCEPT !.Version = remoteObject.Version]
                          r == IF ~remoteObject.Directory
                               THEN applyFile(m, stin.Identification, p)
                               ELSE Ret(m, OK)
                      IN IF r.err # OK THEN Ret(m, r.err)
                         ELSE storeModified(r.m, p, stin1)
            ELSE IF ~localModified THEN Ret(m, OK)
                 ELSE storeModified(m, p,
                          [stin EXCEPT !.Version = VersionIncrease(@, m.SelfID)])

\* ApplyModify that moves the staged file into place before the version merge is checked
ApplyModifyEager(m, p, remoteObject) ==
    IF remoteObject # NilObj /\ VersionIsEmpty(remoteObject.Version) THEN Ret(m, OK)
    ELSE IF p \notin DOMAIN m.StaticInfos THEN Ret(m, "ModelInconsistent")
    ELSE LET stin == m.StaticInfos[p]
             localModified == isModified(m, p)
         IN IF remoteObject # NilObj
            THEN IF localModified THEN Ret(m, "Conflict")
                 ELSE IF ~VersionValid(stin.Version, remoteObject.Version, m.SelfID)
                 THEN Ret(IF remoteObject.Directory THEN m
                          ELSE applyFile(m, stin.Identification, p).m, "Conflict")
                 ELSE LET stin1 == [stin EXCEPT !.Version = remoteObject.Version]
                          r == IF ~remoteObject.Directory
                               THEN applyFile(m, stin.Identification, p)
                               ELSE Ret(m, OK)
                      IN IF r.err # OK THEN Ret(m, r.err)
                         ELSE storeModified(r.m, p, stin1)
            ELSE IF ~localModified THEN Ret(m, OK)
                 ELSE storeModified(m, p,
                          [stin EXCEPT !.Version = VersionIncrease(@, m.SelfID)])

ApplyModify(m, p, remoteObject) ==
    IF remoteObject # NilObj /\ VersionIsEmpty(remoteObject.Version) THEN Ret(m, OK)
    ELSE IF p \notin DOMAIN m.StaticInfos THEN Ret(m, "ModelInconsistent")
    ELSE LET stin == m.StaticInfos[p]
             localModified == isModified(m, p)
         IN IF remoteObject # NilObj
            THEN IF localModified THEN Ret(m, "Conflict")
                 ELSE IF ~VersionValid(stin.Version, remoteObject.Version, m.SelfID)
                 THEN Ret(m, "Conflict")
                 ELSE LET stin1 == [stin EXCEPT !.Version = remoteObject.Version]
                          r == IF ~remoteObject.Directory
                               THEN applyFile(m, stin.Identification, p)
                               ELSE Ret(m, OK)
                      IN IF r.err # OK THEN Ret(m, r.err)
                         ELSE storeModified(r.m, p, stin1)
            ELSE IF ~localModified THEN Ret(m, OK)
                 ELSE storeModified(m, p,
                          [stin EXCEPT !.Version = VersionIncrease(@, m.SelfID)])

(***************************************************************************)
(* Removal: remove.go                                                      *)
(***************************************************************************)
\* the empty files written as markers hash to h0
MarkerEntry == FileEntry("h0", 0)

CheckDir(id) == TombDir(id) \o <<REMOVECHECKDIR>>

DoneDir(id) == TombDir(id) \o <<REMOVEDONEDIR>>

CheckMarker(id, peer) == CheckDir(id) \o <<peer>>

DoneMarker(id, peer) == DoneDir(id) \o <<peer>>

Restrict(f, S) == [q \in DOMAIN f \cap S |-> f[q]]

\* directRemove that forgets the static info of what it removes
directRemoveTrackedOnly(m, p) ==
    LET objList == partialPopulateMap(m, p) IN
    Ret([m EXCEPT !.disk = IF objList = {} THEN @ ELSE RemoveAll(@, p),
                  !.TrackedPaths = @ \ objList], OK)

directRemove(m, p) ==
    LET objList == partialPopulateMap(m, p) IN
    Ret([m EXCEPT !.disk = IF objList = {} THEN @ ELSE RemoveAll(@, p),
                  !.TrackedPaths = @ \ objList,
                  !.StaticInfos = Restrict(@, DOMAIN @ \ objList)], OK)

makeLocalRemove(m, id) ==
    IF ~CanWrite(m.disk, RemoveStorePath \o <<id>>) THEN Ret(m, "IOError")
    ELSE Ret([m EXCEPT !.disk = Put(@, RemoveStorePath \o <<id>>, MarkerEntry)], OK)

\* shared.MakeDirectories(removeDirectory, check, done)
MakeDirectories(d, id) == MakeDirectory(MakeDirectory(d, CheckDir(id)), DoneDir(id))

\* the files writeRemovalDir writes: every peer not yet in check, the own peer in done
markersToWrite(m, d, id) ==
    {CheckMarker(id, peer) : peer \in {q \in readPeers(m) : ~FileExists(d, CheckMarker(id, q))}}
    \cup (IF FileExists(d, DoneMarker(id, m.SelfID)) THEN {} ELSE {DoneMarker(id, m.SelfID)})

RECURSIVE updateLocal(_, _)

\* the marker files `files` written into the directory tree d
WriteMarkers(d, files) ==
    [q \in DOMAIN d \cup files |-> IF q \in DOMAIN d THEN d[q] ELSE MarkerEntry]

\* writeRemovalDir once the directories exist: the check markers, the own done
\* marker, then the update of the model for the removal directory
writeMarkers(m, id, d1, markers) ==
    IF \E f \in markers : Up(f) = CheckDir(id) /\ ~CanWrite(d1, f)
    THEN Ret([m EXCEPT !.disk = d1], "IOError")
    ELSE IF \E f \in markers : Up(f) = DoneDir(id) /\ ~CanWrite(d1, f)
    THEN Ret([m EXCEPT !.disk =
                 WriteMarkers(d1, {f \in markers : Up(f) = CheckDir(id)})], "IOError")
    ELSE updateLocal([m EXCEPT !.disk = WriteMarkers(d1, markers)], TombDir(id))

\* writeRemovalDir once the directories exist
writeRemovalDirIn(m, id, d1) == writeMarkers(m, id, d1, markersToWrite(m, d1, id))

writeRemovalDir(m, id) ==
    writeRemovalDirIn(m, id, IF FileExists(m.disk, TombDir(id)) THEN m.disk
                             ELSE MakeDirectories(m.disk, id))

\* localRemove after the removal directory is written: update the model for
\* it (an error of that update is only logged) and notify of the removal
localRemoveNotify(r, p, stin) ==
    IF r.err # OK THEN r
    ELSE Ret(notify(updateLocal(r.m, TombDir(stin.Identification)).m, "Remove",
                    [Identification |-> stin.Identification, Path |-> p,
                     Version |-> stin.Version, Directory |-> stin.Directory,
                     Content |-> stin.Content]), OK)

\* localRemove after directRemove: write the removal directory
localRemoveWrite(r, p, stin) ==
    IF r.err # OK THEN r
    ELSE localRemoveNotify(writeRemovalDir(r.m, stin.Identification), p, stin)

localRemove(m, p) ==
    IF p \notin DOMAIN m.StaticInfos THEN Ret(m, "IllegalFileState")
    ELSE IF isRemoved(m, m.StaticInfos[p].Identification) THEN Ret(m, OK)
    ELSE localRemoveWrite(directRemove(m, p), p, m.StaticInfos[p])

\* remoteRemove after its directRemove: removalExists was read before it
remoteRemoveWrite(r, p, remoteObject, removalExists) ==
    IF r.err # OK THEN r
    ELSE IF ~removalExists THEN localRemove(r.m, p)
    ELSE writeRemovalDir(r.m, remoteObject.Identification)

remoteRemove(m, p, remoteObject) ==
    IF remoteObject = NilObj THEN Ret(m, "IllegalParameters")
    ELSE remoteRemoveWrite(IF IsTracked(m, p) THEN directRemove(m, p) ELSE Ret(m, OK),
                           p, remoteObject,
                           isRemoved(m, remoteObject.Identification))

\* ApplyRemove without the tests of the removal directory and of the root
ApplyRemoveUnguarded(m, p, remoteObject) ==
    IF remoteObject = NilObj THEN localRemove(m, p)
    ELSE remoteRemove(m, p, remoteObject)

ApplyRemove(m, p, remoteObject) ==
    IF InRemoveDir(p) THEN Ret(m, OK)
    ELSE IF p = Root THEN Ret(m, OK)
    ELSE IF remoteObject = NilObj THEN localRemove(m, p)
    ELSE remoteRemove(m, p, remoteObject)

\* ApplyRemove of the path whose root is rootPath and whose subpath is p: a
\* path of another root is ignored as the root itself is
ApplyRemoveAt(m, rootPath, p, remoteObject) ==
    IF ~InRemoveDir(p) /\ rootPath # RootPath THEN Ret(m, OK)
    ELSE ApplyRemove(m, p, remoteObject)

\* every peer with a check marker has a done marker
removalComplete(d, id) ==
    \A peer \in {LastElement(q) : q \in {x \in DOMAIN d : Up(x) = CheckDir(id)}} :
        FileExists(d, DoneMarker(id, peer))

\* completeTrackedRemoval after the local note: remove the removal directory
removeNoted(r, id) == IF r.err # OK THEN r ELSE directRemove(r.m, TombDir(id))

\* completeTrackedRemoval that goes on when the local note could not be written
completeTrackedRemovalUnchecked(m, id) ==
    IF ~FileExists(m.disk, CheckDir(id)) THEN Ret(m, "IOError")
    ELSE IF ~removalComplete(m.disk, id) THEN Ret(m, OK)
    ELSE directRemove(makeLocalRemove(m, id).m, TombDir(id))

\* completeTrackedRemoval that writes the local note and keeps the removal directory
completeTrackedRemovalKeep(m, id) ==
    IF ~FileExists(m.disk, CheckDir(id)) THEN Ret(m, "IOError")
    ELSE IF ~removalComplete(m.disk, id) THEN Ret(m, OK)
    ELSE makeLocalRemove(m, id)

completeTrackedRemoval(m, id) ==
    IF ~FileExists(m.disk, CheckDir(id)) THEN Ret(m, "IOError")
    ELSE IF ~removalComplete(m.disk, id) THEN Ret(m, OK)
    ELSE removeNoted(makeLocalRemove(m, id), id)

\* the loop of checkRemove over the removals read at its start
RECURSIVE checkRemovals(_, _)
RECURSIVE checkRemovalsRest(_, _, _)
checkRemovals(m, list) ==
    IF list = <<>> THEN Ret(m, OK)
    ELSE checkRemovalsRest(writeRemovalDir(m, LastElement(Head(list))),
                           LastElement(Head(list)), Tail(list))

\* one round of the loop after writeRemovalDir: an error of
\* completeTrackedRemoval is logged and the loop goes on
checkRemovalsRest(r, id, rest) ==
    IF r.err # OK THEN r
    ELSE checkRemovals(completeTrackedRemoval(r.m, id).m, rest)

\* the end of checkRemove: the local notes are read
checkLocals(r) ==
    IF r.err # OK THEN r
    ELSE IF ~FileExists(r.m.disk, RemoveStorePath) THEN Ret(r.m, "IOError")
    ELSE r

checkRemove(m) ==
    IF ~FileExists(m.disk, RemovePath) THEN Ret(m, "IOError")
    ELSE checkLocals(checkRemovals(m,
             SortString({q \in DOMAIN m.disk : Up(q) = RemovePath /\ q # Root})))

(***************************************************************************)
(* updateLocal                                                             *)
(***************************************************************************)
\* the subpath of a path as a string
RECURSIVE SubPath(_)
SubPath(p) ==
    IF p = <<>> THEN ""
    ELSE IF Len(p) = 1 THEN p[1]
    ELSE p[1] \o "/" \o SubPath(Tail(p))

\* the absolute path of a path as a string
FullPath(p) == IF p = <<>> THEN RootPath ELSE RootPath \o "/" \o SubPath(p)

\* strings.HasPrefix
HasPrefix(s, prefix) == Len(prefix) <= Len(s) /\ SubSeq(s, 1, Len(prefix)) = prefix

\* strings.Contains
Contains(s, substr) ==
    \E i \in 1..(Len(s) - Len(substr) + 1) : SubSeq(s, i, i + Len(substr) - 1) = substr

\* the filter of compareMaps: the scope is given as an absolute path, the path
\* is compared with it as a string
skip(p, scope) ==
    /\ ~HasPrefix(RootPath \o "/" \o SubPath(p), FullPath(scope))
    /\ ~Contains(FullPath(scope), RootPath \o "/" \o SubPath(p))

compareMaps(m, scope, current) ==
    [created |-> SortString({p \in current \ m.TrackedPaths : ~skip(p, scope)}),
     modified |-> SortString({p \in current \cap m.TrackedPaths : ~skip(p, scope)}),
     removed |-> SortString({p \in m.TrackedPaths \ current : ~skip(p, scope)})]

RECURSIVE applyCreated(_, _)
RECURSIVE applyCreatedRest(_, _)
applyCreated(m, list) ==
    IF list = <<>> THEN Ret(m, OK)
    ELSE applyCreatedRest(ApplyCreate(m, Head(list), NilObj), Tail(list))

\* the loop over created after one ApplyCreate: an error ends updateLocal
applyCreatedRest(r, rest) == IF r.err # OK THEN r ELSE applyCreated(r.m, rest)

RECURSIVE applyModified(_, _)
RECURSIVE applyModifiedRest(_, _)
applyModified(m, list) ==
    IF list = <<>> THEN Ret(m, OK)
    ELSE applyModifiedRest(IF isModified(m, Head(list))
                           THEN ApplyModify(m, Head(list), NilObj) ELSE Ret(m, OK),
                           Tail(list))

\* the loop over modified after one ApplyModify
applyModifiedRest(r, rest) == IF r.err # OK THEN r ELSE applyModified(r.m, rest)

RECURSIVE applyRemoved(_, _)
RECURSIVE applyRemovedRest(_, _)
applyRemoved(m, list) ==
    IF list = <<>> THEN Ret(m, OK)
    ELSE applyRemovedRest(ApplyRemove(m, Head(list), NilObj), Tail(list))

\* the loop over removed after one ApplyRemove
applyRemovedRest(r, rest) == IF r.err # OK THEN r ELSE applyRemoved(r.m, rest)

\* updateLocal after the creations: the modifications
updateModified(r, cmp) == IF r.err # OK THEN r ELSE applyModified(r.m, cmp.modified)

\* updateLocal after the modifications: the removals
updateRemoved(r, cmp) == IF r.err # OK THEN r ELSE applyRemoved(r.m, cmp.removed)

\* updateLocal that applies the removals before the creations
updateListsRemovedFirst(m, cmp) ==
    applyCreatedRest(updateModified(applyRemoved(m, cmp.removed), cmp), cmp.created)

\* updateLocal with the lists compareMaps has returned
updateLists(m, cmp) ==
    updateRemoved(updateModified(applyCreated(m, cmp.created), cmp), cmp)

updateLocal(m, scope) == updateLists(m, compareMaps(m, scope, populateMap(m)))

\* PartialUpdate after updateLocal: the removals are checked
updateCheckRemove(r) == IF r.err # OK THEN r ELSE checkRemove(r.m)

PartialUpdate(m, scope) == updateCheckRemove(updateLocal(m, scope))

Update(m) == PartialUpdate(m, Root)

(***************************************************************************)
(* Update messages: HasUpdate, CheckMessage, ApplyUpdateMessage            *)
(***************************************************************************)
Msg(op, obj) == [Operation |-> op, Object |-> obj]

HasUpdate(m, um) ==
    LET exists == um.Object.Path \in DOMAIN m.StaticInfos
        version == IF exists THEN m.StaticInfos[um.Object.Path].Version
                   ELSE CreateVersion
    IN CASE um.Operation = "Remove" -> ~exists
         [] um.Operation = "Modify" -> VersionEqual(version, um.Object.Version)
         [] um.Operation = "Create" -> exists
         [] OTHER -> FALSE

\* CheckMessage that leaves the operation as it came in
rewriteOperationNone(m, um) == um.Operation

\* the operation after the two rewrites of CheckMessage
rewriteOperation(m, um) ==
    LET op1 == IF ~IsTracked(m, um.Object.Path) /\ um.Operation = "Modify"
               THEN "Create" ELSE um.Operation
    IN IF IsTracked(m, um.Object.Path) /\ op1 = "Create" THEN "Modify" ELSE op1

\* the checks on a path below the removal directory without the one of the operation
checkRemoveDirMessageAnyOp(m, um) ==
    IF ~parentsExist(m, um.Object.Path) THEN "IgnoreUpdate"
    ELSE IF isLocalRemoved(m, um.Object.Identification) THEN "ObjectRemoved"
    ELSE IF isLocalRemoved(m, LastElement(um.Object.Path)) THEN "ObjectRemovalDone"
    ELSE OK

\* checkRemoveDirMessage without the test of the locally remembered removals
checkRemoveDirMessageNoStore(m, um) ==
    IF um.Operation # "Create" THEN "errFilter"
    ELSE IF ~parentsExist(m, um.Object.Path) THEN "IgnoreUpdate"
    ELSE OK

\* the checks of CheckMessage on a path below the removal directory
checkRemoveDirMessage(m, um) ==
    IF um.Operation # "Create" THEN "errFilter"
    ELSE IF ~parentsExist(m, um.Object.Path) THEN "IgnoreUpdate"
    ELSE IF isLocalRemoved(m, um.Object.Identification) THEN "ObjectRemoved"
    ELSE IF isLocalRemoved(m, LastElement(um.Object.Path)) THEN "ObjectRemovalDone"
    ELSE OK

\* checkTracked without the test of the parents
checkTrackedNoParents(m, um) ==
    IF um.Operation # "Create" /\ ~IsTracked(m, um.Object.Path)
    THEN "errObjectUntracked"
    ELSE IF um.Operation = "Modify" /\ VersionIsEmpty(um.Object.Version)
    THEN "errFilter"
    ELSE OK

\* the checks of CheckMessage that follow the removal directory ones
checkTracked(m, um) ==
    IF ~parentsExist(m, um.Object.Path) THEN "errParentObjectsMissing"
    ELSE IF um.Operation # "Create" /\ ~IsTracked(m, um.Object.Path)
    THEN "errObjectUntracked"
    ELSE IF um.Operation = "Modify" /\ VersionIsEmpty(um.Object.Version)
    THEN "errFilter"
    ELSE OK

\* CheckMessage that runs its last checks on the operation as it came in
CheckMessageStale(m, um) ==
    IF HasUpdate(m, um) THEN [um |-> um, err |-> "IgnoreUpdate"]
    ELSE LET um1 == [um EXCEPT !.Operation = rewriteOperation(m, um)]
             inDir == IF InRemoveDir(um1.Object.Path)
                      THEN checkRemoveDirMessage(m, um1) ELSE OK
         IN IF isRemoved(m, um1.Object.Identification) /\ um1.Operation # "Remove"
            THEN [um |-> um1, err |-> "ObjectRemoved"]
            ELSE IF inDir # OK THEN [um |-> um1, err |-> inDir]
            ELSE [um |-> um1, err |-> checkTracked(m, um)]

CheckMessage(m, um) ==
    IF HasUpdate(m, um) THEN [um |-> um, err |-> "IgnoreUpdate"]
    ELSE LET um1 == [um EXCEPT !.Operation = rewriteOperation(m, um)]
             inDir == IF InRemoveDir(um1.Object.Path)
                      THEN checkRemoveDirMessage(m, um1) ELSE OK
         IN IF isRemoved(m, um1.Object.Identification) /\ um1.Operation # "Remove"
            THEN [um |-> um1, err |-> "ObjectRemoved"]
            ELSE IF inDir # OK THEN [um |-> um1, err |-> inDir]
            ELSE [um |-> um1, err |-> checkTracked(m, um1)]

ApplyUpdateMessage(m, msg) ==
    CASE msg.Operation = "Create" -> ApplyCreate(m, msg.Object.Path, msg.Object)
      [] msg.Operation = "Modify" -> ApplyModify(m, msg.Object.Path, msg.Object)
      [] msg.Operation = "Remove" -> ApplyRemove(m, msg.Object.Path, msg.Object)
      [] OTHER -> Ret(m, "Unsupported")

(***************************************************************************)
(* Bootstrap                                                               *)
(***************************************************************************)
\* the static infos after a Bootstrap that takes over the version only
bootstrapInfosKeepId(m, foreignObjs) ==
    [p \in DOMAIN m.StaticInfos |->
        IF p \in m.TrackedPaths /\ \E o \in foreignObjs : o.Path = p
        THEN LET o == CHOOSE o \in foreignObjs : o.Path = p
             IN [m.StaticInfos[p] EXCEPT !.Version = o.Version]
        ELSE m.StaticInfos[p]]

\* the static infos after Bootstrap took over id and version of the tracked objects
bootstrapInfos(m, foreignObjs) ==
    [p \in DOMAIN m.StaticInfos |->
        IF p \in m.TrackedPaths /\ \E o \in foreignObjs : o.Path = p
        THEN LET o == CHOOSE o \in foreignObjs : o.Path = p
             IN [m.StaticInfos[p] EXCEPT !.Identification = o.Identification,
                                         !.Version = o.Version]
        ELSE m.StaticInfos[p]]

\* the update messages Bootstrap returns, before they are sorted
bootstrapMessages(m, foreignObjs) ==
    {Msg("Create", o) : o \in {x \in foreignObjs : x.Path \notin m.TrackedPaths}}
    \cup {Msg("Modify", o) : o \in {x \in foreignObjs :
              /\ x.Path \in m.TrackedPaths
              /\ x.Path \in DOMAIN m.StaticInfos
              /\ m.StaticInfos[x.Path].Content # x.Content}}

Bootstrap(m, foreignObjs) ==
    IF \E o \in foreignObjs : o.Path \in m.TrackedPaths /\ o.Path \notin DOMAIN m.StaticInfos
    THEN [m |-> m, err |-> "IllegalFileState", ums |-> {}]
    ELSE [m |-> [m EXCEPT !.StaticInfos = bootstrapInfos(m, foreignObjs)],
          err |-> OK, ums |-> bootstrapMessages(m, foreignObjs)]

(***************************************************************************)
(* The inputs: the update messages another peer may send.                  *)
(***************************************************************************)
Operations == {"Create", "Modify", "Remove"}

MsgVersions == [AllPeers -> 0..MaxVer]

ChildNames(d, p) == {LastElement(q) : q \in {x \in DOMAIN d : x # Root /\ Up(x) = p}}

\* the identifiers a message may carry: of an object of the other peer, of a
\* tracked user object, of a removal
KnownIds ==
    {RemoteId}
    \cup {StaticInfos[p].Identification : p \in UserPaths \cap DOMAIN StaticInfos}
    \cup ChildNames(disk, RemovePath) \cup ChildNames(disk, RemoveStorePath)

\* the version of an object the other peer has modified once
RemoteVersion == [p \in AllPeers |-> IF p = OtherPeer THEN 1 ELSE 0]

UserObj(i, p, v) ==
    [Identification |-> i, Path |-> p, Version |-> v, Directory |-> (p = DirD),
     Content |-> IF p = DirD THEN "" ELSE "h2"]

\* a creation carries the version of the other peer, a modification any version,
\* a removal the identifier only
UserMsgs ==
    {Msg("Create", UserObj(i, p, RemoteVersion)) : i \in KnownIds, p \in UserPaths}
    \cup {Msg("Modify", UserObj(i, p, v)) : i \in KnownIds, p \in UserPaths, v \in MsgVersions}
    \cup {Msg("Remove", UserObj(i, p, CreateVersion)) : i \in KnownIds, p \in UserPaths}

RemovalPaths(id) == {TombDir(id), CheckDir(id), DoneDir(id), DoneMarker(id, OtherPeer)}

RemovalObjs ==
    {[Identification |-> MarkerId, Path |-> p, Version |-> CreateVersion,
      Directory |-> (Len(p) < 5), Content |-> IF Len(p) < 5 THEN "" ELSE "h0"] :
        p \in UNION {RemovalPaths(id) : id \in KnownIds}}

\* the messages that are applied: those on a user path, creations below the removal directory
AppliedMsgs == UserMsgs \cup {Msg("Create", o) : o \in RemovalObjs}

\* an object below the removal directory that carries the identifier of a known object
RemovalObjsOf(i) ==
    {[Identification |-> i, Path |-> p, Version |-> CreateVersion,
      Directory |-> (Len(p) < 5), Content |-> IF Len(p) < 5 THEN "" ELSE "h0"] :
        p \in RemovalPaths(i)}

\* every message the filter may be asked about
AllMsgs ==
    UserMsgs \cup {Msg(op, o) : op \in Operations,
                                o \in RemovalObjs \cup UNION {RemovalObjsOf(i) : i \in KnownIds}}

\* the objects of a foreign model Bootstrap is given
ForeignObjs == {UserObj(RemoteId, p, RemoteVersion) : p \in UserPaths}

Scopes == {Root, DirD}

(***************************************************************************)
(* The state machine.                                                      *)
(***************************************************************************)
EmptyMap == [q \in {} |-> DirEntry]

\* no second peer is modelled, no update message is on its way
NoPeer == [TrackedPaths |-> {}, StaticInfos |-> EmptyMap, disk |-> EmptyMap,
           peers |-> {}, nextId |-> 0, events |-> <<>>, SelfID |-> OtherPeer]

NoMail == [p \in AllPeers |-> <<>>]

InitDirs == {Root, <<TINZENITEDIR>>, RemovePath, <<TINZENITEDIR, LOCALDIR>>, TempPath}

\* Create: an empty model on a Tinzenite directory
Init ==
    /\ TrackedPaths = {}
    /\ StaticInfos = EmptyMap
    /\ \E store \in {{}, {RemoveStorePath}} :
           disk = [q \in InitDirs \cup store |-> DirEntry]
    /\ peers = {SelfID, OtherPeer}
    /\ nextId = 0
    /\ now = 0
    /\ msgs = 0
    /\ other = NoPeer
    /\ inbox = NoMail
    /\ phase = "local"

SetM(m) ==
    /\ TrackedPaths' = m.TrackedPaths
    /\ StaticInfos' = m.StaticInfos
    /\ disk' = m.disk
    /\ nextId' = m.nextId
    /\ peers' = m.peers

UserWrite(p, c) ==
    /\ now < MaxClock
    /\ CanWrite(disk, p)
    /\ FileExists(disk, p) => ~disk[p].dir
    /\ disk' = Put(disk, p, FileEntry(c, now + 1))
    /\ now' = now + 1
    /\ UNCHANGED <<TrackedPaths, StaticInfos, peers, nextId, msgs>>
    /\ UNCHANGED sync

UserMkdir(p) ==
    /\ ~FileExists(disk, p)
    /\ disk' = Put(disk, p, DirEntry)
    /\ UNCHANGED <<TrackedPaths, StaticInfos, peers, nextId, now, msgs>>
    /\ UNCHANGED sync

UserDelete(p) ==
    /\ FileExists(disk, p)
    /\ disk' = RemoveAll(disk, p)
    /\ UNCHANGED <<TrackedPaths, StaticInfos, peers, nextId, now, msgs>>
    /\ UNCHANGED sync

\* the model after an operation that returned r, while identifiers last
Returned(r) ==
    /\ r.m.nextId <= MaxIds
    /\ SetM(r.m)

DoPartialUpdate(scope) ==
    /\ Returned(PartialUpdate(M, scope))
    /\ UNCHANGED <<now, msgs>>
    /\ UNCHANGED sync

\* the content the transport has put into the temp directory for a message
Staged(um) ==
    IF um.Object.Directory \/ um.Operation = "Remove" THEN {"none"}
    ELSE IF um.Object.Identification = MarkerId THEN {"none", "h0"}
    ELSE {"none"} \cup Hashes

\* the transport stages the file of the update, if it has one, and the update is applied
Deliver(um, staged) ==
    LET d == IF staged = "none" THEN disk
             ELSE Put(disk, TempFile(um.Object.Identification), FileEntry(staged, now + 1))
    IN ApplyUpdateMessage([M EXCEPT !.disk = d], um)

DoApplyUpdateMessage(um, staged) ==
    /\ Returned(Deliver(um, staged))
    /\ msgs' = msgs + 1
    /\ now' = IF staged = "none" THEN now ELSE now + 1
    /\ UNCHANGED sync

\* another peer sends an update message, as long as the budget of messages lasts
ReceiveUpdateMessage ==
    /\ msgs < MaxMsgs
    /\ \E um \in AppliedMsgs : \E staged \in Staged(um) : DoApplyUpdateMessage(um, staged)

DoBootstrap(foreignObjs) ==
    /\ msgs < MaxMsgs
    /\ SetM(Bootstrap(M, foreignObjs).m)
    /\ msgs' = msgs + 1
    /\ UNCHANGED now
    /\ UNCHANGED sync

Next ==
    \/ \E p \in UserFiles, c \in Hashes : UserWrite(p, c)
    \/ UserMkdir(DirD)
    \/ \E p \in UserPaths : UserDelete(p)
    \/ \E scope \in Scopes : DoPartialUpdate(scope)
    \/ ReceiveUpdateMessage
    \/ \E o \in ForeignObjs : DoBootstrap({o})

Spec == Init /\ [][Next]_vars

(***************************************************************************)
(* Two peers: each sends what its model notifies to the other, which asks  *)
(* CheckMessage and applies what CheckMessage accepts.                     *)
(***************************************************************************)
\* a peer on a new Tinzenite directory after its first Update
FirstUpdate(self) ==
    [Update([TrackedPaths |-> {}, StaticInfos |-> EmptyMap,
             disk |-> [q \in InitDirs \cup {RemoveStorePath} |-> DirEntry],
             peers |-> AllPeers, nextId |-> 0, events |-> <<>>,
             SelfID |-> self]).m EXCEPT !.events = <<>>]

\* the own peer starts with the model a, the other peer with the model b
InitPeers(a, b) ==
    /\ TrackedPaths = a.TrackedPaths
    /\ StaticInfos = a.StaticInfos
    /\ disk = a.disk
    /\ nextId = a.nextId
    /\ peers = AllPeers
    /\ now = 0
    /\ msgs = 0
    /\ other = b
    /\ inbox = NoMail
    /\ phase = "local"

InitSync == InitPeers(FirstUpdate(SelfID), FirstUpdate(OtherPeer))

\* the transport hands um to the model m: CheckMessage, then the file of the
\* object is put into the temp directory and the message is applied
TransportStaged(m, um) ==
    IF um.Object.Directory \/ um.Operation = "Remove" THEN m
    ELSE [m EXCEPT !.disk = Put(@, TempFile(um.Object.Identification),
                                FileEntry(um.Object.Content, now))]

\* the message as CheckMessage returned it is applied if it was accepted
TransportChecked(m, c) ==
    IF c.err # OK THEN m
    ELSE ApplyUpdateMessage(TransportStaged(m, c.um), c.um).m

Transported(m, um) == TransportChecked(m, CheckMessage(m, um))

\* a CheckMessage that applies the message it accepts
CheckMessageCallApplying(m, um) ==
    [m |-> Transported(m, um), um |-> CheckMessage(m, um).um, err |-> CheckMessage(m, um).err]

\* the call of CheckMessage on the model m: the model it leaves, which no
\* statement of it writes, the message and the error it returns
CheckMessageCall(m, um) ==
    [m |-> m, um |-> CheckMessage(m, um).um, err |-> CheckMessage(m, um).err]

\* the user works on the directory of the own peer
SyncLocalChange ==
    /\ phase = "local"
    /\ \/ UserMkdir(DirD)
       \/ UserDelete(DirD)

\* the local changes end, the exchange goes on
SyncEndLocal ==
    /\ phase = "local"
    /\ phase' = "exchange"
    /\ UNCHANGED <<local, other, inbox>>

\* the own peer is left with the model m1, whose events go to the other
\* peer; `taken` messages have left the own inbox
SelfBecomes(m1, taken) ==
    /\ m1.nextId <= MaxIds
    /\ SetM(m1)
    /\ inbox' = [inbox EXCEPT ![SelfID] = SubSeq(@, taken + 1, Len(@)),
                              ![OtherPeer] = @ \o m1.events]
    /\ UNCHANGED <<now, msgs, other, phase>>

\* the same for the other peer
OtherBecomes(m1, taken) ==
    /\ m1.nextId <= MaxIds
    /\ other' = [m1 EXCEPT !.events = <<>>]
    /\ inbox' = [inbox EXCEPT ![OtherPeer] = SubSeq(@, taken + 1, Len(@)),
                              ![SelfID] = @ \o m1.events]
    /\ UNCHANGED <<local, phase>>

SyncUpdate == SelfBecomes(Update(M).m, 0)

SyncUpdateOther == OtherBecomes(Update(other).m, 0)

SyncReceive ==
    /\ inbox[SelfID] # <<>>
    /\ SelfBecomes(Transported(M, Head(inbox[SelfID])), 1)

SyncReceiveOther ==
    /\ inbox[OtherPeer] # <<>>
    /\ OtherBecomes(Transported(other, Head(inbox[OtherPeer])), 1)

NextSync ==
    \/ SyncLocalChange
    \/ SyncEndLocal
    \/ SyncUpdate
    \/ SyncUpdateOther
    \/ SyncReceive
    \/ SyncReceiveOther

SpecSync == InitSync /\ [][NextSync]_vars

(***************************************************************************)
(* Helpers of the properties.                                              *)
(***************************************************************************)
\* the identifiers that name a removal in the shared removal directory
Removals(d) == ChildNames(d, RemovePath)

\* the peers named in the check directory of a removal
CheckPeers(d, id) == ChildNames(d, CheckDir(id))

\* the identifiers the static infos carry
TrackedIds(infos) == {infos[p].Identification : p \in DOMAIN infos}

\* the identifiers that have been given to a tracked object: those minted here
\* (each is minted for the object that is tracked with it) and those tracked now
AssignedIds == {LocalIds[i] : i \in 1..nextId} \cup TrackedIds(StaticInfos)

BoolCount(b) == IF b THEN 1 ELSE 0

(***************************************************************************)
(* C1                                                                      *)
(***************************************************************************)
\* C1: after every public operation (Update, PartialUpdate, ApplyUpdateMessage
\* and through it ApplyCreate, ApplyModify, ApplyRemove, Bootstrap), whether it
\* returned an error or not, the key set of TrackedPaths is the key set of
\* StaticInfos.
C1_TrackedIsStaticKeys == TrackedPaths = DOMAIN StaticInfos

\* a removal has been purged (directRemove took its directory out of the model)
\* while other objects stay tracked
C1_Witness ==
    /\ RemovePath \in TrackedPaths
    /\ \E id \in ChildNames(disk, RemoveStorePath) : ~FileExists(disk, TombDir(id))

(***************************************************************************)
(* C2                                                                      *)
(***************************************************************************)
\* C2: in every state reached by Update, PartialUpdate and ApplyUpdateMessage
\* calls (also of messages that CheckMessage has not seen), every tracked path
\* other than the root has its parent tracked, up to the root.
C2_ParentsTracked == \A p \in TrackedPaths : parentsExist(M, p)

(***************************************************************************)
(* C3                                                                      *)
(***************************************************************************)
\* C3: for every identifier that was given to a tracked object exactly one of
\* these holds between public operations: a tracked static info carries it,
\* the shared removal directory of it exists, the local note of it exists.
C3_ExactlyOneHome ==
    \A id \in AssignedIds :
        BoolCount(id \in TrackedIds(StaticInfos))
        + BoolCount(FileExists(disk, TombDir(id)))
        + BoolCount(FileExists(disk, RemoveStorePath \o <<id>>)) = 1

(***************************************************************************)
(* C5                                                                      *)
(***************************************************************************)
\* the messages C5 is about: a Create or a Modify that carries the identifier
\* of a removed object (shared removal directory or local note) for a path
\* that is not tracked
ResurrectingMsgs ==
    {um \in AllMsgs :
        /\ um.Operation \in {"Create", "Modify"}
        /\ \/ FileExists(disk, TombDir(um.Object.Identification))
           \/ FileExists(disk, RemoveStorePath \o <<um.Object.Identification>>)
        /\ ~IsTracked(M, um.Object.Path)}

\* C5 as claimed: CheckMessage of every Create or Modify that carries the
\* identifier of a removed object for an untracked path returns ObjectRemoved.
C5_AlwaysObjectRemoved ==
    \A um \in ResurrectingMsgs : CheckMessage(M, um).err = "ObjectRemoved"

\* C5 as amended: CheckMessage of such a message returns ObjectRemoved, but for a
\* Modify with an empty version, which it answers with IgnoreUpdate; it accepts
\* none of them.
C5_ResurrectionGuard ==
    \A um \in ResurrectingMsgs :
        CheckMessage(M, um).err =
            IF um.Operation = "Modify" /\ VersionIsEmpty(um.Object.Version)
            THEN "IgnoreUpdate" ELSE "ObjectRemoved"

\* a removal has been purged, only the local note is left, and a Create for an
\* untracked path carries its identifier
C5_Witness ==
    \E um \in ResurrectingMsgs :
        /\ um.Operation = "Create"
        /\ um.Object.Path \in UserPaths
        /\ ~FileExists(disk, TombDir(um.Object.Identification))

(***************************************************************************)
(* C6                                                                      *)
(***************************************************************************)
\* the removals a step takes out of the shared removal directory
Purged == {id \in Removals(disk) : ~FileExists(disk', TombDir(id))}

\* the peers the sweep has in the check directory of a removal when it decides:
\* those that were in it and the known peers, which writeRemovalDir adds
SweepCheckPeers(id) == CheckPeers(disk, id) \cup readPeers(M)

\* C6: a step deletes the shared removal directory of an identifier only if
\* every peer in its check directory has a marker in its done directory (the
\* own marker is the one the sweep writes itself), the local note of the
\* identifier exists afterwards, and if the local note cannot be written (its
\* directory is missing) no removal directory is deleted.
C6_PurgeSafety ==
    [][/\ \A id \in Purged :
             /\ \A peer \in SweepCheckPeers(id) \ {SelfID} :
                    FileExists(disk, DoneMarker(id, peer))
             /\ FileExists(disk', RemoveStorePath \o <<id>>)
       /\ ~FileExists(disk, RemoveStorePath) => Purged = {}]_vars

\* a removal has been purged: its local note exists, its removal directory is gone
C6_Witness ==
    \E id \in ChildNames(disk, RemoveStorePath) :
        ~FileExists(disk, TombDir(id)) /\ id \in TrackedIds(StaticInfos)

(***************************************************************************)
(* C7                                                                      *)
(***************************************************************************)
\* the removal of id is as a local remove with the peers self and p2 leaves it
\* (both in check, self in done) and the done marker of p2 has been created
ReadyToPurge(d, id) ==
    /\ CheckPeers(d, id) = {SelfID, OtherPeer}
    /\ FileExists(d, DoneMarker(id, SelfID))
    /\ FileExists(d, DoneMarker(id, OtherPeer))

\* the three effects C7 names, in the model m an Update returns
PurgedIn(m, id) ==
    /\ FileExists(m.disk, RemoveStorePath \o <<id>>)
    /\ ~FileExists(m.disk, TombDir(id))
    /\ \A p \in m.TrackedPaths : ~IsPrefix(TombDir(id), p)

\* the sweep can write: the directory of the local notes exists, and every
\* removal directory has its check and its done directory
SweepCanWrite(d) ==
    /\ FileExists(d, RemoveStorePath)
    /\ \A id \in Removals(d) : FileExists(d, CheckDir(id)) /\ FileExists(d, DoneDir(id))

Observed(infos) ==
    [p \in DOMAIN infos |->
        [Identification |-> infos[p].Identification, Version |-> infos[p].Version,
         Content |-> infos[p].Content, Directory |-> infos[p].Directory]]

C9_CheckMessageIdempotent ==
    \A um \in AllMsgs :
        LET first == CheckMessage(M, um)
            second == CheckMessage(M, first.um)
        IN /\ second.um.Operation = first.um.Operation
           /\ second.err = first.err

\* CheckMessage has rewritten a Modify for an untracked path into a Create and
\* has accepted it
C9_Witness ==
    \E um \in AllMsgs :
        /\ um.Operation = "Modify"
        /\ CheckMessage(M, um).um.Operation = "Create"
        /\ CheckMessage(M, um).err = OK

(***************************************************************************)
(* C10                                                                     *)
(***************************************************************************)
\* the object at p has been created here and never modified, it is gone from
\* disk and no Update has seen that yet
CreatedThenDeleted(p) ==
    /\ IsTracked(M, p)
    /\ StaticInfos[p].Identification \in {LocalIds[i] : i \in 1..nextId}
    /\ VersionIsEmpty(StaticInfos[p].Version)
    /\ ~FileExists(disk, p)
    /\ ~FileExists(disk, TombDir(StaticInfos[p].Identification))
    /\ ~FileExists(disk, RemoveStorePath \o <<StaticInfos[p].Identification>>)

\* C10: a path created on disk, seen by an Update, deleted from disk and seen by
\* the next Update has no tracked entry after it, and the removal directory of
\* its identifier exists with the done marker of the own peer.
C10_CreateThenRemove ==
    \A p \in UserPaths :
        CreatedThenDeleted(p) =>
            LET r == Update(M) IN
            /\ p \notin r.m.TrackedPaths
            /\ p \notin DOMAIN r.m.StaticInfos
            /\ FileExists(r.m.disk, DoneMarker(StaticInfos[p].Identification, SelfID))

(***************************************************************************)
(* C4                                                                      *)
(***************************************************************************)
\* an Update of m finds nothing to do and notifies nothing
Settled(m) == Update(m).m = m

\* the local changes have ended, no update message is on its way, no Update
\* has anything left to find
Quiescent ==
    /\ phase = "exchange"
    /\ inbox = NoMail
    /\ Settled(M)
    /\ Settled(other)

\* the peers track the same paths, with the same content hash
Converged ==
    /\ TrackedPaths = other.TrackedPaths
    /\ \A p \in DOMAIN StaticInfos \cap DOMAIN other.StaticInfos :
           StaticInfos[p].Content = other.StaticInfos[p].Content

\* C4: two peers that have made local creations, modifications and removals
\* and then exchange all pending operations, in any interleaving and without
\* further local changes, end with the same tracked paths and the same content
\* hash for every path that survives: once nothing is pending the peers agree.
C4_Convergence == Quiescent => Converged

(***************************************************************************)
(* C11                                                                     *)
(***************************************************************************)
\* the Modify messages on a tracked path whose version the local version includes
IncludedModifies ==
    {um \in AllMsgs :
        /\ um.Operation = "Modify"
        /\ IsTracked(M, um.Object.Path)
        /\ VersionIncludes(StaticInfos[um.Object.Path].Version, um.Object.Version)}

\* C11: CheckMessage of a Modify on a tracked path whose version is included in
\* the local version, the local one being equal or strictly ahead, returns
\* IgnoreUpdate.
C11_IncludedModifyIgnored ==
    \A um \in IncludedModifies : CheckMessage(M, um).err = "IgnoreUpdate"

(***************************************************************************)
(* C12, C13                                                                *)
(***************************************************************************)
\* the model when the transport has staged `staged` for the message um
StagedModel(um, staged) ==
    IF staged = "none" THEN M
    ELSE [M EXCEPT !.disk = Put(@, TempFile(um.Object.Identification),
                                FileEntry(staged, now + 1))]

\* neither version includes the other
Incomparable(a, b) == ~VersionIncludes(a, b) /\ ~VersionIncludes(b, a)

\* the remote modifications of a path that has a local record
RemoteModifies ==
    {um \in UserMsgs : um.Operation = "Modify" /\ um.Object.Path \in DOMAIN StaticInfos}

\* C12: ApplyModify with a remote object whose version is incomparable with the
\* version of the local record returns Conflict, whatever has been staged.
C12_IncomparableConflict ==
    \A um \in RemoteModifies :
        Incomparable(StaticInfos[um.Object.Path].Version, um.Object.Version)
        => \A staged \in Staged(um) :
               ApplyModify(StagedModel(um, staged), um.Object.Path, um.Object).err
                   = "Conflict"

\* a file that is on disk as the model has seen it, and a staged remote
\* modification whose version is incomparable with the local one
C12_Witness ==
    \E um \in RemoteModifies :
        /\ um.Object.Path = FileF
        /\ FileExists(disk, FileF)
        /\ ~isModified(M, FileF)
        /\ Incomparable(StaticInfos[FileF].Version, um.Object.Version)
        /\ ApplyModify(StagedModel(um, "h1"), FileF, um.Object).err = "Conflict"

\* ApplyModify of um on the staged model m returned Conflict and left m as it was
ConflictKeeps(m, r) ==
    r.err = "Conflict"
    => /\ r.m.TrackedPaths = m.TrackedPaths
       /\ r.m.StaticInfos = m.StaticInfos
       /\ r.m.disk = m.disk
       /\ r.m.events = m.events

Elements(list) == {list[i] : i \in 1..Len(list)}

\* shared.SortableUpdateMessage orders update messages by the length of the
\* path: the messages that may come first
Shortest(ums) ==
    {um \in ums : \A o \in ums :
        Len(SubPath(um.Object.Path)) <= Len(SubPath(o.Object.Path))}

\* every order of the messages
RECURSIVE AnyOrder(_)
AnyOrder(ums) ==
    IF ums = {} THEN {<<>>}
    ELSE UNION {{<<um>> \o rest : rest \in AnyOrder(ums \ {um})} : um \in ums}

\* sort.Sort is not stable: every order of the messages that is sorted by the
\* length of the path may come out
RECURSIVE SortedOrder(_)
SortedOrder(ums) ==
    IF ums = {} THEN {<<>>}
    ELSE UNION {{<<um>> \o rest : rest \in SortedOrder(ums \ {um})} : um \in Shortest(ums)}

\* sortUpdateMessages that returns the list as it was built
sortUpdateMessagesUnsorted(ums) == AnyOrder(ums)

\* the lists sortUpdateMessages may return for the messages of a list
sortUpdateMessages(ums) == SortedOrder(ums)

\* root.ForEach of Sync: the paths of the foreign tree
foreignPathsOf(foreignObjs) == {o.Path : o \in foreignObjs}

\* root.ForEach of Sync: the object of the foreign tree at a path
foreignObjAt(foreignObjs, p) == CHOOSE o \in foreignObjs : o.Path = p

\* Sync, the loop over created that sends every object, removed or not
syncCreatedAll(m, foreignObjs, created) ==
    {Msg("Create", foreignObjAt(foreignObjs, p)) : p \in Elements(created)}

\* Sync, the loop over created
syncCreated(m, foreignObjs, created) ==
    {Msg("Create", foreignObjAt(foreignObjs, p)) :
        p \in {q \in Elements(created) :
                  ~isRemoved(m, foreignObjAt(foreignObjs, q).Identification)}}

\* Sync, the loop over modified with the version test of the earlier revisions
syncModifiedEqual(m, foreignObjs, modified) ==
    {Msg("Modify", foreignObjAt(foreignObjs, p)) :
        p \in {q \in Elements(modified) :
                  /\ GetInfo(m, q) # NilObj
                  /\ ~VersionEqual(GetInfo(m, q).Version, foreignObjAt(foreignObjs, q).Version)
                  /\ ~GetInfo(m, q).Directory}}

\* Sync, the loop over modified
syncModified(m, foreignObjs, modified) ==
    {Msg("Modify", foreignObjAt(foreignObjs, p)) :
        p \in {q \in Elements(modified) :
                  /\ GetInfo(m, q) # NilObj
                  /\ ~VersionIncludes(GetInfo(m, q).Version,
                                      foreignObjAt(foreignObjs, q).Version)
                  /\ ~GetInfo(m, q).Directory}}

\* Sync, the loop over removed that looks for the removal in the own directory
syncRemovedLocal(m, foreignObjs, removed) ==
    {Msg("Remove", GetInfo(m, p)) :
        p \in {q \in Elements(removed) :
                  /\ GetInfo(m, q) # NilObj
                  /\ isRemoved(m, GetInfo(m, q).Identification)}}

\* Sync, the loop over removed
syncRemoved(m, foreignObjs, removed) ==
    {Msg("Remove", GetInfo(m, p)) :
        p \in {q \in Elements(removed) :
                  /\ GetInfo(m, q) # NilObj
                  /\ TombDir(GetInfo(m, q).Identification) \in foreignPathsOf(foreignObjs)}}

\* Sync, the three loops over the lists compareMaps has returned
syncLists(m, foreignObjs, cmp) ==
    syncCreated(m, foreignObjs, cmp.created)
    \cup syncModified(m, foreignObjs, cmp.modified)
    \cup syncRemoved(m, foreignObjs, cmp.removed)

\* the update messages Sync returns, before they are sorted
syncMessages(m, foreignObjs) ==
    syncLists(m, foreignObjs, compareMaps(m, Root, foreignPathsOf(foreignObjs)))

\* the lists Sync may return
Sync(m, foreignObjs) == sortUpdateMessages(syncMessages(m, foreignObjs))

\* the lists Bootstrap may return
BootstrapLists(m, foreignObjs) == sortUpdateMessages(Bootstrap(m, foreignObjs).ums)

(***************************************************************************)
(* The foreign trees Sync is given: the root and the Tinzenite directory   *)
(* of the other peer, and below them a directory, a file in it and the     *)
(* directory of a removal.                                                 *)
(***************************************************************************)
ForeignDir(p) ==
    [Identification |-> MarkerId, Path |-> p, Version |-> CreateVersion,
     Directory |-> TRUE, Content |-> ""]

ForeignBase == {ForeignDir(Root), ForeignDir(<<TINZENITEDIR>>), ForeignDir(RemovePath)}

\* a foreign tree holds the directory of every file it holds
ForeignTreesOf(dirs, files, tombs) ==
    {tree \in {ForeignBase \cup d \cup f \cup t : d \in dirs, f \in files, t \in tombs} :
        FileF \in foreignPathsOf(tree) => DirD \in foreignPathsOf(tree)}

\* the directory d as the other peer has created it, if it has
ForeignUserDir == {{}, {UserObj(RemoteId, DirD, RemoteVersion)}}

\* the foreign trees whose file is of any version
VersionTrees ==
    ForeignTreesOf(ForeignUserDir,
                   {{}} \cup {{UserObj(RemoteId, FileF, v)} : v \in MsgVersions}, {{}})

\* the foreign trees that hold no user path and know of the removal of any known
\* identifier, or of none
TombTrees ==
    ForeignTreesOf({{}}, {{}}, {{}} \cup {{ForeignDir(TombDir(i))} : i \in KnownIds})

\* the foreign trees whose directory, or whose file, carries any known identifier
IdTrees ==
    ForeignTreesOf({{UserObj(i, DirD, RemoteVersion)} : i \in KnownIds}, {{}}, {{}})
    \cup ForeignTreesOf({{UserObj(RemoteId, DirD, RemoteVersion)}},
                        {{UserObj(i, FileF, RemoteVersion)} : i \in KnownIds}, {{}})

\* the paths both sides track
TrackedBoth(tree) == {p \in foreignPathsOf(tree) : IsTracked(M, p)}

\* C14 as stated: for a path both sides track, Sync returns a Modify iff the
\* local record is the one of a file and its version does not include the
\* foreign one.
C14_ModifyIffRecord ==
    \A tree \in VersionTrees : \A p \in TrackedBoth(tree) :
        Msg("Modify", foreignObjAt(tree, p)) \in syncMessages(M, tree)
        <=> /\ ~StaticInfos[p].Directory
            /\ ~VersionIncludes(StaticInfos[p].Version, foreignObjAt(tree, p).Version)

\* C14: for a path both sides track, Sync returns a Modify iff the path is on
\* the local disk as a file and the local version does not include the foreign
\* one.
C14_ModifyIffOnDisk ==
    \A tree \in VersionTrees :
        \A p \in TrackedBoth(tree) :
            Msg("Modify", foreignObjAt(tree, p)) \in syncMessages(M, tree)
            <=> /\ FileExists(disk, p)
                /\ ~disk[p].dir
                /\ ~VersionIncludes(StaticInfos[p].Version,
                                    foreignObjAt(tree, p).Version)

\* the local version of the file is strictly ahead of the foreign one, and Sync
\* returns no Modify
C14_Witness ==
    /\ IsTracked(M, FileF)
    /\ FileExists(disk, FileF)
    /\ \E tree \in VersionTrees :
           /\ FileF \in foreignPathsOf(tree)
           /\ VersionIncludes(StaticInfos[FileF].Version, foreignObjAt(tree, FileF).Version)
           /\ StaticInfos[FileF].Version # foreignObjAt(tree, FileF).Version
           /\ ~VersionIsEmpty(foreignObjAt(tree, FileF).Version)
           /\ Msg("Modify", foreignObjAt(tree, FileF)) \notin syncMessages(M, tree)

\* the paths the local model tracks and the foreign tree does not hold
TrackedLocalOnly(tree) == {p \in DOMAIN StaticInfos : IsTracked(M, p)} \ foreignPathsOf(tree)

\* Sync returns a Remove for the path
RemovePlanned(tree, p) ==
    \E um \in syncMessages(M, tree) : um.Operation = "Remove" /\ um.Object.Path = p

\* C15 as stated: for a path tracked locally and absent from the foreign tree,
\* Sync returns a Remove iff the foreign tree holds the removal directory of
\* the local identifier of the path.
C15_RemoveIffForeignTomb ==
    \A tree \in TombTrees : \A p \in TrackedLocalOnly(tree) :
        RemovePlanned(tree, p)
        <=> TombDir(StaticInfos[p].Identification) \in foreignPathsOf(tree)

\* C15: for a path tracked locally and absent from the foreign tree, Sync
\* returns a Remove iff the path is still on the local disk and the foreign tree
\* holds the removal directory of its local identifier; the own removal
\* directories never cause one.
C15_RemoveIffOnDiskAndForeignTomb ==
    \A tree \in TombTrees : \A p \in TrackedLocalOnly(tree) :
        RemovePlanned(tree, p)
        <=> /\ FileExists(disk, p)
            /\ TombDir(StaticInfos[p].Identification) \in foreignPathsOf(tree)

\* the foreign tree holds the removal of the local file and Sync returns its
\* Remove; another foreign tree does not, the removal is known locally, and
\* Sync returns none
C15_Witness ==
    /\ \E tree \in TombTrees :
           /\ FileF \in TrackedLocalOnly(tree)
           /\ TombDir(StaticInfos[FileF].Identification) \in foreignPathsOf(tree)
           /\ RemovePlanned(tree, FileF)
    /\ \E tree \in TombTrees : \E p \in TrackedLocalOnly(tree) :
           /\ FileExists(disk, p)
           /\ isRemoved(M, StaticInfos[p].Identification)
           /\ ~RemovePlanned(tree, p)

\* the messages Sync returns for a path
PlannedFor(tree, p) == {um \in syncMessages(M, tree) : um.Object.Path = p}

\* C16: for a path of the foreign tree that is not tracked locally, Sync returns
\* the Create of the foreign object and nothing else, unless the identifier of
\* the foreign object is known as removed, in the shared removal directory or
\* in the local store: then it returns nothing for the path.
C16_CreateUnlessRemoved ==
    \A tree \in IdTrees : \A p \in foreignPathsOf(tree) \ TrackedPaths :
        PlannedFor(tree, p) =
            IF isRemoved(M, foreignObjAt(tree, p).Identification) THEN {}
            ELSE {Msg("Create", foreignObjAt(tree, p))}

\* an untracked path of the foreign tree whose identifier is removed in the
\* local store only gets nothing, one whose identifier is not removed a Create
C16_Witness ==
    /\ \E tree \in IdTrees : \E p \in UserPaths \cap (foreignPathsOf(tree) \ TrackedPaths) :
           /\ isLocalRemoved(M, foreignObjAt(tree, p).Identification)
           /\ ~FileExists(disk, TombDir(foreignObjAt(tree, p).Identification))
           /\ PlannedFor(tree, p) = {}
    /\ \E tree \in IdTrees : \E p \in UserPaths \cap (foreignPathsOf(tree) \ TrackedPaths) :
           PlannedFor(tree, p) = {Msg("Create", foreignObjAt(tree, p))}

\* the foreign trees with or without the directory, the file in it and the
\* removal of a known identifier
ListTrees ==
    ForeignTreesOf(ForeignUserDir, {{}, {UserObj(RemoteId, FileF, RemoteVersion)}},
                   {{}} \cup {{ForeignDir(TombDir(i))} : i \in KnownIds})

\* p is a directory that q lies in
Inside(p, q) == p # q /\ IsPrefix(p, q)

\* in the list a directory comes before what lies in it, a shorter path before
\* a longer one
ParentsFirst(list) ==
    \A i, j \in 1..Len(list) :
        \/ Inside(list[i].Object.Path, list[j].Object.Path)
        \/ Len(SubPath(list[i].Object.Path)) < Len(SubPath(list[j].Object.Path))
        => i < j

BootstrapTrees == VersionTrees \cup TombTrees

\* the messages Bootstrap returns for a path
BootstrapFor(r, p) == {um \in r.ums : um.Object.Path = p}

\* Bootstrap has returned r for a foreign object o whose path is not tracked:
\* its Create and nothing else, and the path is as untracked as before
BootstrapUntracked(r, o) ==
    /\ BootstrapFor(r, o.Path) = {Msg("Create", o)}
    /\ o.Path \notin r.m.TrackedPaths
    /\ o.Path \in DOMAIN r.m.StaticInfos <=> o.Path \in DOMAIN StaticInfos
    /\ o.Path \in DOMAIN StaticInfos => r.m.StaticInfos[o.Path] = StaticInfos[o.Path]
    /\ r.m.disk = disk

\* Bootstrap has returned r for a foreign object o whose path is tracked: the
\* record carries the foreign identifier and version and is otherwise as
\* before, and a Modify is returned iff the content hashes differ
BootstrapTracked(r, o) ==
    /\ r.err = OK
    /\ r.m.StaticInfos[o.Path] =
           [StaticInfos[o.Path] EXCEPT !.Identification = o.Identification,
                                       !.Version = o.Version]
    /\ BootstrapFor(r, o.Path) =
           IF StaticInfos[o.Path].Content # o.Content THEN {Msg("Modify", o)} ELSE {}

\* C18: Bootstrap returns exactly one Create for every foreign object whose path
\* is not tracked and leaves the model as it is for that path; for every
\* foreign object whose path is tracked the local record takes the foreign
\* identifier and version, and a Modify is returned iff the local content hash
\* differs from the foreign one.
C18_BootstrapPlan ==
    \A tree \in BootstrapTrees : \A o \in tree :
        IF o.Path \in TrackedPaths THEN BootstrapTracked(Bootstrap(M, tree), o)
        ELSE BootstrapUntracked(Bootstrap(M, tree), o)

\* a tracked file with an identifier, a version and a content of its own gets a
\* Modify, a tracked directory none, and an untracked removal directory a Create
C18_Witness ==
    /\ \E tree \in VersionTrees : \E o \in tree :
           /\ o.Path = FileF
           /\ IsTracked(M, FileF) /\ IsTracked(M, DirD)
           /\ StaticInfos[FileF].Identification # o.Identification
           /\ StaticInfos[FileF].Version # o.Version
           /\ Msg("Modify", o) \in Bootstrap(M, tree).ums
           /\ BootstrapFor(Bootstrap(M, tree), DirD) = {}
    /\ \E tree \in TombTrees : \E o \in tree :
           /\ InRemoveDir(o.Path)
           /\ o.Path # RemovePath
           /\ Msg("Create", o) \in Bootstrap(M, tree).ums

\* the place of an operation in the order of the events of one Update
OpRank(op) ==
    CASE op = "Create" -> 1
      [] op = "Modify" -> 2
      [] OTHER -> 3

\* creations, then modifications, then removals; the creation of a directory
\* before the creation of what lies in it
EventsOrdered(events) ==
    \A i, j \in 1..Len(events) :
        i < j =>
            /\ OpRank(events[i].Operation) <= OpRank(events[j].Operation)
            /\ ~(/\ events[i].Operation = "Create"
                 /\ events[j].Operation = "Create"
                 /\ Inside(events[j].Object.Path, events[i].Object.Path))

\* C19: the events one call of Update writes to the sink are ordered: all
\* creations (of a directory before those of what lies in it), then all
\* modifications, then all removals, also when the call removes locally.
C19_UpdateEventsOrdered == EventsOrdered(Update(M).m.events)

\* an event that creates a path of the removal directory
RemovalCreate(e) == e.Operation = "Create" /\ InRemoveDir(e.Object.Path)

\* as EventsOrdered, but for the creations below the removal directory, which
\* may follow a modification or a removal
EventsOrderedButRemovals(events) ==
    \A i, j \in 1..Len(events) :
        i < j =>
            /\ \/ OpRank(events[i].Operation) <= OpRank(events[j].Operation)
               \/ RemovalCreate(events[j])
            /\ ~(/\ events[i].Operation = "Create"
                 /\ events[j].Operation = "Create"
                 /\ Inside(events[j].Object.Path, events[i].Object.Path))

\* C19: the events one call of Update writes to the sink are ordered
\* creations (of a directory before those of what lies in it), modifications,
\* removals, except for the creations below the removal directory: a local
\* removal writes those during the removals.
C19_UpdateEventsOrderedButRemovals == EventsOrderedButRemovals(Update(M).m.events)

\* one Update removes a directory and the file in it: the removal directory of
\* the file is created after the removal event of the directory
C19_Witness ==
    \E i, j \in 1..Len(Update(M).m.events) :
        /\ i < j
        /\ Update(M).m.events[i].Operation = "Remove"
        /\ Update(M).m.events[i].Object.Path = DirD
        /\ RemovalCreate(Update(M).m.events[j])

(***************************************************************************)
(* Partial updates next to a directory whose name begins with the name of  *)
(* the scope: the user works on d, d/f and d2, the model is updated at the *)
(* root or at d.                                                           *)
(***************************************************************************)
NextScope ==
    \/ \E p \in {DirD, DirD2} : UserMkdir(p)
    \/ \E c \in Hashes : UserWrite(FileF, c)
    \/ \E p \in {DirD, DirD2, FileF} : UserDelete(p)
    \/ \E scope \in Scopes : DoPartialUpdate(scope)

SpecScope == Init /\ [][NextScope]_vars

\* p lies in the scope directory, is it, or is a directory on the way to it
InScope(p, scope) == IsPrefix(scope, p) \/ IsPrefix(p, scope)

\* the events PartialUpdate writes for a path
EventsFor(r, p) == {i \in 1..Len(r.m.events) : r.m.events[i].Object.Path = p}

\* C20 as stated, for the paths outside the scope: a path that is on disk, is
\* not tracked and lies neither in the scope directory d nor on the way to it
\* is not tracked after PartialUpdate(d) and no event is written for it.
C20_OutsideScopeUntouched ==
    FileExists(disk, DirD) =>
        \A p \in DOMAIN disk \ TrackedPaths :
            ~InScope(p, DirD) =>
                /\ p \notin PartialUpdate(M, DirD).m.TrackedPaths
                /\ EventsFor(PartialUpdate(M, DirD), p) = {}

\* after the Update that returned r without error the tracked paths are the
\* paths the scan of the disk reports
TrackedAsScanned(r) == r.err = OK => r.m.TrackedPaths = populateMap(r.m)

\* C21: after Update has returned without error a path is tracked iff it is on
\* disk below the root and not ignored: what was added is tracked, what has
\* gone from disk is no longer tracked.
C21_UpdateTracksDisk == TrackedAsScanned(Update(M))

\* the version that counts n changes of the own peer and none of another
SelfVersion(n) == [p \in AllPeers |-> IF p = SelfID THEN n ELSE 0]

\* the paths a scan finds on disk that the model does not track
Untracked == {p \in populateMap(M) : ~IsTracked(M, p)}

\* the identifiers of the records of the model
StoredIds(m) == {m.StaticInfos[p].Identification : p \in DOMAIN m.StaticInfos}

\* C22: a local ApplyCreate stores a record with a fresh identifier and the
\* version {self:1}.
C22_LocalCreateVersion ==
    \A p \in Untracked :
        ApplyCreate(M, p, NilObj).err = OK =>
            /\ ApplyCreate(M, p, NilObj).m.StaticInfos[p].Identification \notin StoredIds(M)
            /\ ApplyCreate(M, p, NilObj).m.StaticInfos[p].Version = SelfVersion(1)

RemovalMsgs ==
    {um \in AllMsgs : InRemoveDir(um.Object.Path)}
    \cup {Msg("Modify", [x.Object EXCEPT !.Version = RemoteVersion]) :
             x \in {um \in AllMsgs : InRemoveDir(um.Object.Path) /\ um.Operation = "Modify"}}

\* C24 as stated: a Modify or a Remove on a path of the removal directory is
\* answered with the filter error.
C24_NonCreateIsFilterError ==
    \A um \in RemovalMsgs :
        um.Operation # "Create" => CheckMessage(M, um).err = "errFilter"

\* C24: what CheckMessage accepts on a path of the removal directory leaves it
\* as a Create; a message that leaves it as a Modify or a Remove is answered
\* with IgnoreUpdate if HasUpdate knows it, else with ObjectRemoved if it is a
\* Modify of a removed identifier, else with the filter error.
C24_OnlyCreateAccepted ==
    \A um \in RemovalMsgs :
        /\ CheckMessage(M, um).err = OK => CheckMessage(M, um).um.Operation = "Create"
        /\ CheckMessage(M, um).um.Operation # "Create" =>
               CheckMessage(M, um).err =
                   IF HasUpdate(M, um) THEN "IgnoreUpdate"
                   ELSE IF /\ isRemoved(M, um.Object.Identification)
                           /\ CheckMessage(M, um).um.Operation # "Remove"
                   THEN "ObjectRemoved"
                   ELSE "errFilter"

\* a Remove of a tracked path of the removal directory gets the filter error, a
\* Modify of an untracked one is accepted as a Create
C24_Witness ==
    /\ \E um \in RemovalMsgs :
           /\ um.Operation = "Remove"
           /\ IsTracked(M, um.Object.Path)
           /\ CheckMessage(M, um).err = "errFilter"
    /\ \E um \in RemovalMsgs :
           /\ um.Operation = "Modify"
           /\ CheckMessage(M, um).um.Operation = "Create"
           /\ CheckMessage(M, um).err = OK

\* the identifiers whose removal is remembered locally and whose shared
\* removal directory is gone
PurgedIds == {id \in ChildNames(disk, RemoveStorePath) : ~FileExists(disk, TombDir(id))}

\* the creations of the removal directory of id, or of a path in it
TombCreates(id) ==
    {um \in AllMsgs : um.Operation = "Create" /\ IsPrefix(TombDir(id), um.Object.Path)}

\* C25 as stated: once the removal of id is purged and remembered locally,
\* CheckMessage answers a Create of its removal directory or of a path below it
\* with ObjectRemoved or ObjectRemovalDone.
C25_PurgedAnsweredRemoved ==
    \A id \in PurgedIds : \A um \in TombCreates(id) :
        CheckMessage(M, um).err \in {"ObjectRemoved", "ObjectRemovalDone"}

\* C25: once the removal of id is purged and remembered locally, CheckMessage
\* accepts no Create of its removal directory or of a path below it.
C25_PurgedNeverAccepted ==
    \A id \in PurgedIds : \A um \in TombCreates(id) : CheckMessage(M, um).err # OK

\* C25: once the removal of id is purged and remembered locally, CheckMessage
\* accepts no Create of its removal directory or of a path below it: it answers
\* IgnoreUpdate if HasUpdate knows the message, else ObjectRemoved if the
\* message carries a removed identifier, else IgnoreUpdate if a parent of the
\* path is untracked (as for every path below the purged directory), else
\* ObjectRemovalDone for the removal directory itself.
C25_PurgedAnswer ==
    \A id \in PurgedIds : \A um \in TombCreates(id) :
        /\ CheckMessage(M, um).err # OK
        /\ CheckMessage(M, um).err =
               IF HasUpdate(M, um) THEN "IgnoreUpdate"
               ELSE IF isRemoved(M, um.Object.Identification) THEN "ObjectRemoved"
               ELSE IF ~parentsExist(M, um.Object.Path) THEN "IgnoreUpdate"
               ELSE IF um.Object.Path = TombDir(id) THEN "ObjectRemovalDone"
               ELSE CheckMessage(M, um).err
        /\ (um.Object.Path # TombDir(id) /\ ~IsTracked(M, TombDir(id))) =>
               CheckMessage(M, um).err \in {"IgnoreUpdate", "ObjectRemoved"}

\* a purged removal whose directory is answered with ObjectRemovalDone and one
\* of whose marker paths is answered with IgnoreUpdate
C25_Witness ==
    \E id \in PurgedIds :
        /\ \E um \in TombCreates(id) :
               /\ um.Object.Path = TombDir(id)
               /\ CheckMessage(M, um).err = "ObjectRemovalDone"
        /\ \E um \in TombCreates(id) :
               /\ um.Object.Path # TombDir(id)
               /\ ~isRemoved(M, um.Object.Identification)
               /\ CheckMessage(M, um).err = "IgnoreUpdate"

\* every message the filter may be asked about, with the modifications below
\* the removal directory that carry a version
FilterMsgs == AllMsgs \cup RemovalMsgs

\* what holds of a message um that CheckMessage has accepted on m
AcceptedOk(m, um) ==
    /\ parentsExist(m, um.Object.Path)
    /\ um.Operation \in {"Modify", "Remove"} => IsTracked(m, um.Object.Path)
    /\ um.Operation = "Create" => ~IsTracked(m, um.Object.Path)
    /\ um.Operation = "Modify" => ~VersionIsEmpty(um.Object.Version)
    /\ um.Operation # "Remove" => ~isRemoved(m, um.Object.Identification)

\* an earlier rule of the filter answers the message um1 that came in as um:
\* it is known, it carries a removed identifier, or it is below the removal directory
AnsweredBefore(m, um, um1) ==
    \/ HasUpdate(m, um)
    \/ isRemoved(m, um1.Object.Identification) /\ um1.Operation # "Remove"
    \/ InRemoveDir(um1.Object.Path)

ReadsOnly(r, um) ==
    /\ r.m.TrackedPaths = TrackedPaths
    /\ r.m.StaticInfos = StaticInfos
    /\ r.m.disk = disk
    /\ [r.um EXCEPT !.Operation = um.Operation] = um

RecordIds(m) == {m.StaticInfos[p].Identification : p \in {q \in m.TrackedPaths : IsTracked(m, q)}}

\* C28: when the done marker of this peer exists in the removal directory of
\* an identifier, no tracked record carries that identifier.
C28_DoneMeansApplied ==
    \A id \in ChildNames(disk, RemovePath) :
        FileExists(disk, DoneMarker(id, SelfID)) => id \notin RecordIds(M)

\* the greater counter of each peer
VersionMax(a, b) == [p \in AllPeers |-> IF a[p] >= b[p] THEN a[p] ELSE b[p]]

\* the call of ApplyModify that returned r on the path p of the model m with
\* the remote version v has stored the greater counter of each peer
MergedVersion(m, r, p, v) ==
    (r.err = OK /\ p \in DOMAIN r.m.StaticInfos)
    => r.m.StaticInfos[p].Version = VersionMax(m.StaticInfos[p].Version, v)

\* C29: after a successful ApplyModify with a remote object the stored version
\* is the pointwise maximum of the version stored before and the version of the
\* object; no counter has decreased.
C29_RemoteModifyMerges ==
    \A um \in RemoteModifies : \A staged \in Staged(um) :
        MergedVersion(StagedModel(um, staged),
                      ApplyModify(StagedModel(um, staged), um.Object.Path, um.Object),
                      um.Object.Path, um.Object.Version)

\* the files with a record that are on disk
RecordedFiles ==
    {p \in DOMAIN StaticInfos :
        ~StaticInfos[p].Directory /\ FileExists(disk, p) /\ ~disk[p].dir}

\* the file p is on disk with the modification time or the hash of its record
SameOnDisk(p) ==
    disk[p].mtime = StaticInfos[p].Modtime \/ disk[p].content = StaticInfos[p].Content

\* the record of p after a local modification: the counter of this peer one
\* higher, hash and modification time those of the disk
ModifiedRecord(p) ==
    [StaticInfos[p] EXCEPT !.Version = [@ EXCEPT ![SelfID] = @ + 1],
                           !.Content = disk[p].content,
                           !.Modtime = disk[p].mtime]

\* the local ApplyModify of p returned r
LocalModified(r, p) ==
    /\ r.err = OK
    /\ IF SameOnDisk(p)
       THEN r.m = M
       ELSE /\ r.m.StaticInfos = [StaticInfos EXCEPT ![p] = ModifiedRecord(p)]
            /\ r.m.TrackedPaths = TrackedPaths
            /\ r.m.disk = disk
            /\ Len(r.m.events) = 1
            /\ r.m.events[1].Operation = "Modify"
            /\ r.m.events[1].Object.Path = p
            /\ r.m.events[1].Object.Identification = StaticInfos[p].Identification
            /\ r.m.events[1].Object.Version = ModifiedRecord(p).Version

\* C30: ApplyModify without a remote object on a file whose modification time
\* or hash is that of its record succeeds, notifies nothing and leaves the
\* model as it was; on a file that differs in both it succeeds, raises the
\* counter of this peer by one and no other counter, takes hash and
\* modification time from disk and notifies exactly one Modify.
C30_LocalModify ==
    \A p \in RecordedFiles : LocalModified(ApplyModify(M, p, NilObj), p)

\* a file changed on disk since its record was written, whose local
\* modification raises the counter of this peer and notifies one Modify
C30_Witness ==
    \E p \in RecordedFiles :
        /\ ~SameOnDisk(p)
        /\ ApplyModify(M, p, NilObj).err = OK
        /\ ApplyModify(M, p, NilObj).m.StaticInfos[p].Version[SelfID]
               = StaticInfos[p].Version[SelfID] + 1
        /\ Len(ApplyModify(M, p, NilObj).m.events) = 1

(***************************************************************************)
(* C31 .. C40                                                              *)
(***************************************************************************)
\* the remote objects of the user paths that carry an empty version
EmptyVersionObjs == {UserObj(i, p, CreateVersion) : i \in KnownIds, p \in UserPaths}

\* C31: ApplyModify with a remote object whose version is empty returns an
\* error and leaves the model as it was.
C31_EmptyVersionRejected ==
    \A o \in EmptyVersionObjs :
        /\ ApplyModify(M, o.Path, o).err # OK
        /\ ApplyModify(M, o.Path, o).m = M

\* the remote modifications, with a version, of a tracked directory
DirectoryModifies ==
    {um \in RemoteModifies :
        /\ IsTracked(M, um.Object.Path)
        /\ StaticInfos[um.Object.Path].Directory
        /\ ~VersionIsEmpty(um.Object.Version)}

\* the call that returned r has left the record of p as it was and has notified nothing
Ignored(r, p) ==
    /\ r.err = OK
    /\ r.m.StaticInfos[p] = StaticInfos[p]
    /\ r.m.events = <<>>

\* C32: ApplyModify with a remote object on a tracked directory returns
\* success, leaves the record of the directory, its version with it, as it was
\* and notifies no Modify.
C32_DirectoryModifyIgnored ==
    \A um \in DirectoryModifies :
        Ignored(ApplyModify(M, um.Object.Path, um.Object), um.Object.Path)

\* the remote objects a Create of a user path may carry
CreateObjs == {UserObj(i, p, RemoteVersion) : i \in KnownIds, p \in UserPaths}

\* the call that returned r with the error err has left the tracked paths and
\* the static infos as they were and has notified nothing
Refused(r, err) ==
    /\ r.err = err
    /\ r.m.TrackedPaths = TrackedPaths
    /\ r.m.StaticInfos = StaticInfos
    /\ r.m.events = <<>>

\* C33: ApplyCreate of a tracked path returns Conflict if the file is on disk
\* and IllegalFileState if it is not, with and without a remote object; of an
\* untracked path that is on disk it returns Conflict for a remote object; of
\* an untracked path that is not on disk it returns MissingUpdateFile for a
\* remote file whose staged file is missing and IllegalFileState without a
\* remote object. Each time the tracked paths and the static infos are as
\* before and nothing is notified.
C33_CreateErrors ==
    /\ \A p \in UserPaths : \A o \in {NilObj} \cup {x \in CreateObjs : x.Path = p} :
           IsTracked(M, p) =>
               Refused(ApplyCreate(M, p, o),
                       IF FileExists(disk, p) THEN "Conflict" ELSE "IllegalFileState")
    /\ \A o \in CreateObjs :
           (~IsTracked(M, o.Path) /\ FileExists(disk, o.Path)) =>
               Refused(ApplyCreate(M, o.Path, o), "Conflict")
    /\ \A o \in CreateObjs :
           (/\ ~IsTracked(M, o.Path)
            /\ ~FileExists(disk, o.Path)
            /\ ~o.Directory
            /\ ~FileExists(disk, TempFile(o.Identification))) =>
               Refused(ApplyCreate(M, o.Path, o), "MissingUpdateFile")
    /\ \A p \in UserPaths :
           (~IsTracked(M, p) /\ ~FileExists(disk, p)) =>
               Refused(ApplyCreate(M, p, NilObj), "IllegalFileState")

\* the directory is tracked and on disk, the file below it is tracked and
\* missing on disk: a Create of the first is a Conflict, of the second an
\* IllegalFileState
C33_Witness ==
    /\ IsTracked(M, DirD) /\ FileExists(disk, DirD)
    /\ IsTracked(M, FileF) /\ ~FileExists(disk, FileF)
    /\ \E o \in CreateObjs : o.Path = DirD /\ ApplyCreate(M, DirD, o).err = "Conflict"
    /\ \E o \in CreateObjs : o.Path = FileF /\ ApplyCreate(M, FileF, o).err = "IllegalFileState"

\* the remote ApplyCreate of the object o on the model m, where the file of o
\* is staged if it has one, that returned r has tracked the path with the
\* identifier, version, directory flag and hash of o, has moved the staged file
\* away and has notified one Create
CreatedAsDescribed(m, r, o) ==
    r.err = OK =>
        /\ IsTracked(r.m, o.Path)
        /\ r.m.StaticInfos[o.Path].Identification = o.Identification
        /\ r.m.StaticInfos[o.Path].Version = o.Version
        /\ r.m.StaticInfos[o.Path].Directory = o.Directory
        /\ r.m.StaticInfos[o.Path].Content = o.Content
        /\ FileExists(r.m.disk, o.Path)
        /\ ~o.Directory =>
               /\ FileExists(m.disk, TempFile(o.Identification))
               /\ ~FileExists(r.m.disk, TempFile(o.Identification))
               /\ r.m.disk[o.Path] = m.disk[TempFile(o.Identification)]
        /\ Len(r.m.events) = 1
        /\ r.m.events[1].Operation = "Create"
        /\ r.m.events[1].Object.Path = o.Path
        /\ r.m.events[1].Object.Identification = o.Identification
        /\ r.m.events[1].Object.Version = o.Version

\* C34: a successful ApplyCreate with a remote object tracks the path with a
\* record that has the identifier, the version, the directory flag and the hash
\* of the object, moves the staged file of a file object from the temp
\* directory to the path and notifies exactly one Create.
C34_RemoteCreateAsDescribed ==
    \A o \in CreateObjs : \A staged \in Staged(Msg("Create", o)) :
        CreatedAsDescribed(StagedModel(Msg("Create", o), staged),
                           ApplyCreate(StagedModel(Msg("Create", o), staged), o.Path, o), o)

\* a remote file is created from its staged file below a tracked directory
C34_Witness ==
    \E o \in CreateObjs :
        /\ o.Path = FileF
        /\ IsTracked(M, DirD)
        /\ ApplyCreate(StagedModel(Msg("Create", o), "h1"), FileF, o).err = OK
        /\ ~FileExists(ApplyCreate(StagedModel(Msg("Create", o), "h1"), FileF, o).m.disk,
                       TempFile(o.Identification))

\* the paths of the removal directory that are known: those on disk, those
\* tracked and those a message may name
RemovalDirPaths ==
    {p \in DOMAIN disk \cup TrackedPaths \cup DOMAIN StaticInfos : InRemoveDir(p)}
    \cup {o.Path : o \in RemovalObjs}

\* the objects a removal may carry: none for a local one, any identifier for a remote one
RemoveObjs(p) == {NilObj} \cup {UserObj(i, p, RemoteVersion) : i \in KnownIds}

\* the root of another model
OtherRootPath == "other"

\* C35: ApplyRemove of the root, of a path of the removal directory and of a
\* path of another root returns success, with or without a remote object, and
\* leaves the tracked paths, the static infos and the disk, the markers of the
\* removals with it, as they were and notifies nothing.
C35_RemoveRefused ==
    /\ \A p \in {Root} \cup RemovalDirPaths : \A o \in RemoveObjs(p) :
           ApplyRemoveAt(M, RootPath, p, o) = Ret(M, OK)
    /\ \A p \in {Root} \cup UserPaths \cup RemovalDirPaths : \A o \in RemoveObjs(p) :
           ApplyRemoveAt(M, OtherRootPath, p, o) = Ret(M, OK)

\* the markers of a removal are tracked, a user path is tracked, and the
\* removals of the root, of a marker and of the user path under another root
\* are refused
C35_Witness ==
    /\ \E id \in ChildNames(disk, RemovePath) :
           /\ IsTracked(M, DoneMarker(id, SelfID))
           /\ ApplyRemoveAt(M, RootPath, DoneMarker(id, SelfID), NilObj) = Ret(M, OK)
    /\ IsTracked(M, Root)
    /\ ApplyRemoveAt(M, RootPath, Root, NilObj) = Ret(M, OK)
    /\ \E p \in UserPaths :
           /\ IsTracked(M, p)
           /\ ApplyRemoveAt(M, OtherRootPath, p, NilObj) = Ret(M, OK)
           /\ ApplyRemoveAt(M, RootPath, p, NilObj) # Ret(M, OK)

\* the paths at and below p
Below(s, p) == {q \in s : IsPrefix(p, q)}

\* the localRemove of the path p, whose record carried the identifier id, has
\* returned r: the path and what was below it are untracked and off the disk,
\* every peer has its check marker, this peer its done marker, and the paths of
\* the removal directory of id are tracked
RemovedLocally(r, p, id) ==
    /\ Below(r.m.TrackedPaths, p) = {}
    /\ Below(DOMAIN r.m.StaticInfos, p) = {}
    /\ Below(DOMAIN r.m.disk, p) = {}
    /\ \A peer \in r.m.peers : FileExists(r.m.disk, CheckDir(id) \o <<peer>>)
    /\ FileExists(r.m.disk, DoneMarker(id, SelfID))
    /\ \A q \in Below(DOMAIN r.m.disk, TombDir(id)) : IsTracked(r.m, q)

\* C36: after a successful localRemove of a tracked path the path and every
\* path below it are untracked and off the disk, the check marker of every
\* peer and the done marker of this peer exist in the removal directory of its
\* identifier, and the paths of that directory are tracked.
C36_LocalRemoveDone ==
    \A p \in UserPaths :
        (IsTracked(M, p) /\ localRemove(M, p).err = OK)
        => RemovedLocally(localRemove(M, p), p, StaticInfos[p].Identification)

\* the events e are Creates, those of the markers of the removal directory of
\* id among them, followed by one Remove of the path p that carries id and the
\* version v
RemoveNotified(e, p, id, v) ==
    /\ Len(e) >= 1
    /\ e[Len(e)].Operation = "Remove"
    /\ e[Len(e)].Object.Path = p
    /\ e[Len(e)].Object.Identification = id
    /\ e[Len(e)].Object.Version = v
    /\ \A i \in 1..(Len(e) - 1) : e[i].Operation = "Create"
    /\ \E i \in 1..(Len(e) - 1) : e[i].Object.Path = DoneMarker(id, SelfID)

\* C37: a successful localRemove of a tracked path whose identifier is not yet
\* removed notifies exactly one Remove of the object, after the Creates of the
\* markers of its removal directory, with the stored version raised by one for
\* this peer; directRemove notifies nothing.
C37_RemoveNotifiedOnce ==
    \A p \in UserPaths :
        /\ directRemove(M, p).m.events = <<>>
        /\ (/\ IsTracked(M, p)
            /\ ~isRemoved(M, StaticInfos[p].Identification)
            /\ localRemove(M, p).err = OK)
           => RemoveNotified(localRemove(M, p).m.events, p, StaticInfos[p].Identification,
                             VersionIncrease(StaticInfos[p].Version, SelfID))

\* C38: localRemove of a tracked path whose identifier is already removed, in
\* the removal directory or in the local store, succeeds and leaves the path
\* untracked.
C38_RemovedIdStillRemoved ==
    \A p \in UserPaths :
        (IsTracked(M, p) /\ isRemoved(M, StaticInfos[p].Identification))
        => /\ localRemove(M, p).err = OK
           /\ ~IsTracked(localRemove(M, p).m, p)

\* the remote object of the removal of the tracked path p: it carries the
\* identifier of the record of p
RemovedObj(p) == UserObj(StaticInfos[p].Identification, p, RemoteVersion)

\* the remoteRemove of p with the object o has returned r: it has succeeded,
\* p is untracked, the removal directory of the identifier of o has the done
\* marker of this peer and a Remove has been notified
RemovedRemotely(r, p, o) ==
    /\ r.err = OK
    /\ ~IsTracked(r.m, p)
    /\ FileExists(r.m.disk, DoneMarker(o.Identification, SelfID))
    /\ \E i \in 1..Len(r.m.events) :
           r.m.events[i].Operation = "Remove" /\ r.m.events[i].Object.Path = p

\* C39: remoteRemove of a tracked path while the removal directory of the
\* identifier of the object does not exist succeeds, untracks the path, writes
\* the removal directory with the done marker of this peer and notifies a
\* Remove.
C39_RemoteRemoveWithoutTombstone ==
    \A p \in UserPaths :
        (IsTracked(M, p) /\ ~isRemoved(M, StaticInfos[p].Identification))
        => RemovedRemotely(remoteRemove(M, p, RemovedObj(p)), p, RemovedObj(p))

\* the object of a path of a removal directory as the other peer sends it
MarkerObj(p) ==
    [Identification |-> MarkerId, Path |-> p, Version |-> CreateVersion,
     Directory |-> (Len(p) < 5), Content |-> IF Len(p) < 5 THEN "" ELSE "h0"]

\* the model m once the Create of the object o has arrived and has been applied
ArrivedOne(m, o) ==
    [ApplyCreate(IF o.Directory THEN m
                 ELSE [m EXCEPT !.disk = Put(@, TempFile(o.Identification), MarkerEntry)],
                 o.Path, o).m EXCEPT !.events = <<>>]

RECURSIVE Arrived(_, _)
\* the model m once the Creates of the paths of the list have arrived in turn
Arrived(m, list) ==
    IF list = <<>> THEN m ELSE Arrived(ArrivedOne(m, MarkerObj(Head(list))), Tail(list))

\* a removal of which only the directory has arrived yet: its markers cannot
\* be written
HalfArrived(id) == <<TombDir(id)>>

\* a removal the other peer has checked and done
DoneByOther(id) ==
    <<TombDir(id), CheckDir(id), DoneDir(id),
      CheckMarker(id, OtherPeer), DoneMarker(id, OtherPeer)>>

\* the removal of id has been purged from m: noted locally, its directory gone
SweptAway(m, id) == isLocalRemoved(m, id) /\ ~FileExists(m.disk, TombDir(id))

\* two removals of the other peer, the first before the second in the order
\* of the directory listing
FirstRemoval == OtherIds[1]

SecondRemoval == OtherIds[2]

\* no removal is on disk yet and the directories of the removals exist
NoRemovalYet ==
    /\ FileExists(disk, RemovePath)
    /\ FileExists(disk, RemoveStorePath)
    /\ ChildNames(disk, RemovePath) = {}
    /\ ~isLocalRemoved(M, FirstRemoval)
    /\ ~isLocalRemoved(M, SecondRemoval)

\* C40: a removal whose markers cannot be written does not keep the sweep from
\* the removals after it: the removal that is complete once this peer is done
\* is purged in the same sweep.
C40_SweepGoesOn ==
    NoRemovalYet
    => SweptAway(checkRemove(Arrived(M, HalfArrived(FirstRemoval)
                                        \o DoneByOther(SecondRemoval))).m,
                 SecondRemoval)

====
